---- MODULE Spec2Model ----
(***************************************************************************)
(* AstrBook platform adapter (src/adapter/astrbook_adapter.py) and the     *)
(* plugin commands that drive it (src/main.py), as a state machine.        *)
(*                                                                         *)
(* The adapter runs on one asyncio event loop.  The loop keeps a FIFO      *)
(* queue of runnable callbacks; a coroutine runs without interruption from *)
(* one suspension point (await) to the next.  `ready` is that queue; one   *)
(* action of the model is one such uninterrupted stretch of a task.  The   *)
(* environment (server, clock, host) makes suspended tasks runnable by     *)
(* appending them to `ready`.                                              *)
(***************************************************************************)
EXTENDS Integers, Sequences, FiniteSets, TLC

\* ------------------------------------------------------------------ bounds
\* reply_probability and the uniform draw are the fractions k / PScale
PScale == 2
\* blocks carried by one chunk of the stream
MaxChunk == 2
\* inputs of the environment in a run of the whole adapter: connection cycles it
\* ends, notifications it sends, firings of the browse timer, browse commands
MaxInputs == 2
\* notifications sent in a run of the read loop and the admission gate
MaxNotifs == 1
\* connection cycles ended in a run of the reconnect loop
MaxBackoffCycles == 6
\* blocks received on one connection in a run that traces them
MaxWire == 2
\* largest capacity of the memory ring (max_memory_items), and insertions in a
\* run of the ring
MaxCapacity == 3
MaxAdds == 5
\* calls of the toggle_follow tool in a run
MaxCalls == 2
\* connections that end in a run of the decoder over several connections
MaxResumes == 1
\* calls of initialize() and terminate() of the plugin in a run
MaxConfigCalls == 4
\* accepted and refused calls of save_forum_diary in a run
MaxSaves == 52
MaxRejects == 2

\* ------------------------------------------------------- program constants
\* self._reconnect_delay = 5 ; self._max_reconnect_delay = 60
_reconnect_delay == 5
_max_reconnect_delay == 60
\* save_forum_diary: `len(diary.strip()) < 10` and `memories[-50:]`
MinDiaryChars == 10
KeptDiaries == 50
\* abm.session_id of every committed event
SessionKey == "astrbook_browse_system"

None == "None"
Min(a, b) == IF a <= b THEN a ELSE b

RECURSIVE Pow2(_)
Pow2(n) == IF n = 0 THEN 1 ELSE 2 * Pow2(n - 1)

Range(s) == {s[i] : i \in 1..Len(s)}

\* ------------------------------------------------------------------ frames
\* msg_type values that _handle_message routes to _handle_notification
NotifTypesAndThreads ==
    {"reply", "sub_reply", "mention", "new_post", "follow", "new_thread"}
NotifTypesAndHeartbeat ==
    {"reply", "sub_reply", "mention", "new_post", "follow", "pong"}
NotifTypes == {"reply", "sub_reply", "mention", "new_post", "follow"}

\* Values of the fields of a JSON object: a number, a string, null (None in
\* Python), or no such key in the object
JNull == [tag |-> "null", int |-> 0, str |-> ""]
JAbsent == [tag |-> "absent", int |-> 0, str |-> ""]
JInt(n) == [tag |-> "int", int |-> n, str |-> ""]
JStr(s) == [tag |-> "str", int |-> 0, str |-> s]

\* data.get(key) and data.get(key, default)
Get(v) == IF v = JAbsent THEN JNull ELSE v
GetOr(v, default) == IF v = JAbsent THEN default ELSE v

\* str(x) of a field's value
Str(v) ==
    CASE v.tag = "int" -> ToString(v.int)
      [] v.tag = "null" -> "None"
      [] OTHER -> v.str

\* the correlation fields of a notification's JSON body
Payload(thread, reply, user, name) ==
    [thread_id |-> thread, reply_id |-> reply, from_user_id |-> user,
     from_username |-> name]

\* a body that carries none of them
NoPayload == Payload(JAbsent, JAbsent, JAbsent, JAbsent)

\* bodies of a run that looks at the fields: every field present; a follow
\* (no thread, no reply); null and non-numeric values; none present
Payloads ==
    { Payload(JInt(7), JInt(99), JInt(3), JStr("alice")),
      Payload(JAbsent, JAbsent, JInt(3), JStr("alice")),
      Payload(JInt(7), JNull, JStr("u3"), JNull),
      NoPayload }

\* A block of the stream as the decoder hands it on: the JSON body's type, the
\* value random.random() returns if the block reaches the admission gate, the
\* user_id field and the correlation fields.  "bad_json" is a data line that
\* json.loads rejects; "non_object" is valid JSON that is not an object
\* (data.get raises); "like" is a type that _handle_message has no branch for;
\* "no_data" is a block of comment or event lines without a data line.
Frame(t, d, u) == [type |-> t, draw |-> d, user_id |-> u, payload |-> NoPayload]

Frames ==
    {[Frame(t, d, None) EXCEPT !.payload = p] :
        t \in NotifTypes, d \in 0..(PScale - 1), p \in Payloads}
    \cup {Frame("connected", 0, u) : u \in {None, "42"}}
    \cup {Frame(t, 0, None) : t \in {"new_thread", "pong", "bad_json", "non_object"}}
    \cup {Frame(t, 0, None) : t \in {"like", "no_data"}}

NotifCount(s) == Cardinality({i \in 1..Len(s) : s[i].type \in NotifTypes})

Chunks(F, max) == UNION {[1..n -> F] : n \in 0..max}

VARIABLES
    \* configuration read by __init__
    token, auto_browse, auto_reply_mentions, reply_probability, max_memory_items,
    \* AstrBookAdapter fields
    connected, sse_session, bot_user_id, tasks, event_queue, memory,
    \* _sse_loop's local reconnect_delay
    reconnect_delay,
    \* the event loop: runnable callbacks in FIFO order, pending cancellations
    ready, cancelReq,
    \* position of each coroutine
    pcRun, pcSse, pcTimer, pcTerm,
    \* _sse_connect: why its finally block runs; blocks of the chunk still to
    \* be handled while _handle_notification awaits the mark-read call
    closeWhy, pending,
    \* terminate(): index in _tasks of the task it awaits
    termIdx,
    \* observation: one record per notification handled, how the connection
    \* cycles ended, and how often the environment acted
    \* (wire: the blocks received on the current connection, when traced)
    notifLog, wire, cycles, nBrowse, nCmds,
    \* the stream decoder at the level of bytes: bytes still to arrive, bytes
    \* received, the text buffer of _sse_connect, the values handed to
    \* _handle_message, and how many bytes had been received when each earlier
    \* connection ended
    stream, fed, buffer, delivered, cuts,
    \* the toggle_follow tool of the plugin: whether the server has the bot
    \* following the user, the calls of the tool, and the follow and unfollow
    \* requests sent, each with what the server had when it was sent
    following, calls, requests,
    \* the plugin and its host: the platform items of the shared configuration
    \* metadata, the plugin's _registered flag, and the calls of initialize()
    \* and terminate() made so far, each with what it found
    metadata, registered, configLog,
    \* the file forum_memory.json of the plugin's data directory, how many
    \* calls of save_forum_diary were accepted and how many refused, and the
    \* last answer of recall_forum_experience
    storage, nSaved, nRejected, recalled,
    \* what the environment may do in this run: how many cycles it ends,
    \* notifications it sends, timer firings and browse commands, how many of
    \* these in total, the types of the blocks it sends, how many blocks a
    \* chunk carries and how a mark-read call may end; never written after Init
    limits

decVars == <<stream, fed, buffer, delivered, cuts>>
followVars == <<following, calls, requests>>
pluginVars == <<metadata, registered, configLog, storage, nSaved, nRejected, recalled>>
confVars == <<token, auto_browse, auto_reply_mentions, reply_probability,
              max_memory_items>>
adapterVars == <<connected, sse_session, bot_user_id, tasks, event_queue, memory,
                 reconnect_delay>>
loopVars == <<ready, cancelReq>>
pcVars == <<pcRun, pcSse, pcTimer, pcTerm, closeWhy, pending, termIdx>>
obsVars == <<notifLog, wire, cycles, nBrowse, nCmds, limits>>
vars == <<confVars, decVars, followVars, pluginVars, adapterVars, loopVars, pcVars, obsVars>>


\* --------------------------------------------------------- event loop helpers
TaskPc(t) == IF t = "sse" THEN pcSse ELSE pcTimer

\* call_soon: a task already scheduled keeps its place in the queue
Wake(q, t) == IF t \in Range(q) THEN q ELSE Append(q, t)

\* A task of _tasks has finished: its done-callback wakes terminate(), if it
\* awaits that task.
OnDone(q, t) ==
    IF pcTerm = "await" /\ termIdx \in 1..Len(tasks) /\ tasks[termIdx] = t
    THEN Wake(q, "term") ELSE q

\* _run, lines 127-130: the gather ends with CancelledError as soon as one of
\* its tasks is cancelled; _run logs that and returns.  `pc` is the new
\* position of the task that took the step.
GatherAfter(pc) == IF pc = "done" /\ pcRun = "gather" THEN "done" ELSE pcRun

\* `except Exception` (and `except aiohttp.ClientError`) at a site of the code:
\* asyncio.CancelledError derives from BaseException, so no site catches it.
CatchesCancelLegacy(site) == site = "mark"
CatchesCancel(site) == FALSE

\* The except clauses of _sse_loop, lines 167-170: aiohttp.ClientError, then
\* Exception, so every error that ends a cycle (o: how it ended) is caught.
LoopCatchesClientErrorOnly(o) == o = "error"
LoopCatches(o) == TRUE

\* ------------------------------------------------------------ reconnect loop
\* reconnect_delay = min(reconnect_delay * 2, self._max_reconnect_delay)
NextDelayNoDoubling(d) == d
NextDelay(d) == Min(d * 2, _max_reconnect_delay)

\* reconnect_delay = self._reconnect_delay, the statement after
\* `await self._sse_connect()`: reached whenever _sse_connect returns
DelayAfterReturn(d) == _reconnect_delay

\* How a connection cycle ended: "error" (exception before HTTP 200), "401",
\* "non200", "eof" (stream ended after 200), "raise" (exception after 200)
Class(o) ==
    CASE o = "error" -> "fail"
      [] o \in {"401", "non200"} -> "rej"
      [] OTHER -> "conn"

\* cycles.ended counts the cycles that ended, cycles.n those of one class in
\* a row, cycles.base is reconnect_delay when the first of them ended, and
\* cycles.first says that no cycle of another class came before
EndCycle(c, o, d) ==
    IF c.last # "none" /\ Class(c.last) = Class(o)
    THEN [c EXCEPT !.last = o, !.n = c.n + 1, !.ended = c.ended + 1]
    ELSE [last |-> o, n |-> 1, base |-> d, first |-> (c.last = "none"),
          ended |-> c.ended + 1]

\* ---------------------------------------------------------- admission gate
\* `if random.random() > self.reply_probability: return`
AdmittedAlways(d, p) == TRUE
AdmittedInverted(d, p) == d > p
Admitted(d, p) == ~(d > p)

\* How the mark-read POST of _mark_notifications_read ends: HTTP 200, another
\* status, an exception of the client (aiohttp.ClientError), or the 10 s
\* ClientTimeout (asyncio.TimeoutError)
MarkResults == {"200", "non200", "error", "timeout"}

\* `except Exception` of _mark_notifications_read, lines 387-388: every result
\* is logged and the call returns normally
MarkSwallowsStatusOnly(res) == res \in {"200", "non200"}
MarkSwallows(res) == TRUE

\* result: how the mark-read call of the notification ended, "none" before
LogEntry(f, marks, done) ==
    [type |-> f.type, draw |-> f.draw, marks |-> marks, done |-> done,
     result |-> "none", payload |-> f.payload]

\* `self.bot_user_id = data.get("user_id")` for a block of type connected
BotIdentityFirstOnly(f, bot) == IF bot = None THEN f.user_id ELSE bot
BotIdentity(f, bot) == f.user_id

\* `message_block, buffer = buffer.split("\n\n", 1)`: the first block of the
\* buffer and what follows it
SplitLast(blocks) ==
    [block |-> blocks[Len(blocks)], rest |-> SubSeq(blocks, 1, Len(blocks) - 1)]
SplitFirst(blocks) == [block |-> Head(blocks), rest |-> Tail(blocks)]

\* The `while "\n\n" in buffer` loop over the blocks of one chunk, through
\* _parse_sse_block, _handle_message and _handle_notification, up to the first
\* await that suspends (the mark-read call of an admitted notification), an
\* exception, or the end of the chunk.
RECURSIVE HandleBlocks(_, _, _, _)
HandleBlocks(blocks, bot, log, p) ==
    IF blocks = <<>>
    THEN [stop |-> "end", bot |-> bot, log |-> log, rest |-> <<>>]
    ELSE LET f == SplitFirst(blocks).block
             rest == SplitFirst(blocks).rest
         IN  CASE f.type \in {"bad_json", "no_data"} ->
                    HandleBlocks(rest, bot, log, p)
               [] f.type = "non_object" ->
                    [stop |-> "raise", bot |-> bot, log |-> log, rest |-> <<>>]
               [] f.type = "connected" ->
                    HandleBlocks(rest, BotIdentity(f, bot), log, p)
               [] f.type \in NotifTypes ->
                    IF Admitted(f.draw, p)
                    THEN [stop |-> "mark", bot |-> bot,
                          log |-> Append(log, LogEntry(f, 1, FALSE)), rest |-> rest]
                    ELSE HandleBlocks(rest, bot, Append(log, LogEntry(f, 0, TRUE)), p)
               [] OTHER -> HandleBlocks(rest, bot, log, p)

\* abm.sender = MessageMember(user_id=str(from_user_id), nickname=from_username)
SenderSystem(p) == [user_id |-> "system", nickname |-> JStr("AstrBook System")]
Sender(p) ==
    [user_id |-> Str(Get(p.from_user_id)),
     nickname |-> GetOr(p.from_username, JStr("unknown"))]

\* The event _handle_notification builds from the body (lines 273-341) and
\* commits (lines 353-359); e is the notification's entry of the log.
\* src, type and nid tell where the event comes from: they identify it.
NotificationEventPerThread(nid, e) ==
    [src |-> "notification", type |-> e.type, nid |-> nid,
     session_id |-> Str(Get(e.payload.thread_id)), is_wake |-> TRUE,
     sender |-> Sender(e.payload),
     thread_id |-> Get(e.payload.thread_id),
     reply_id |-> Get(e.payload.reply_id),
     notification_type |-> e.type,
     is_browse_event |-> FALSE]
NotificationEvent(nid, e) ==
    [src |-> "notification", type |-> e.type, nid |-> nid,
     session_id |-> SessionKey, is_wake |-> TRUE,
     sender |-> Sender(e.payload),
     thread_id |-> Get(e.payload.thread_id),
     reply_id |-> Get(e.payload.reply_id),
     notification_type |-> e.type,
     is_browse_event |-> FALSE]

\* the event _do_browse builds and commits (lines 411-439)
BrowseEventUnflagged ==
    [src |-> "browse", type |-> "browse", nid |-> 0,
     session_id |-> SessionKey, is_wake |-> TRUE,
     sender |-> [user_id |-> "system", nickname |-> JStr("AstrBook System")],
     thread_id |-> JNull,
     reply_id |-> JNull,
     notification_type |-> None,
     is_browse_event |-> FALSE]
BrowseEvent ==
    [src |-> "browse", type |-> "browse", nid |-> 0,
     session_id |-> SessionKey, is_wake |-> TRUE,
     sender |-> [user_id |-> "system", nickname |-> JStr("AstrBook System")],
     thread_id |-> JNull,
     reply_id |-> JNull,
     notification_type |-> None,
     is_browse_event |-> TRUE]

FrameTypes == {f.type : f \in Frames}

\* no bytes are traced: the run takes the stream block by block
NoStream ==
    stream = <<>> /\ fed = <<>> /\ buffer = <<>> /\ delivered = <<>> /\ cuts = <<>>

\* names of platform items: two of those in _astrbook_items (main.py lines
\* 22-63), and one that only the host defines
ItemNames == {"token", "custom_prompt"}
HostNames == {"id"}
\* what the items dictionary has under a name: nothing, the plugin's
\* description of the item, or one the host put there
Absent == "absent"
ItemValues == {Absent, "astrbook", "host"}

\* forum_memory.json: whether the file exists, whether it holds a JSON list,
\* and the entries of the list
StorageFile(data) == [exists |-> TRUE, valid |-> TRUE, data |-> data]
NoFile == [exists |-> FALSE, valid |-> TRUE, data |-> <<>>]
BrokenFile == [exists |-> TRUE, valid |-> FALSE, data |-> <<>>]
NotRecalled == [kind |-> "", items |-> <<>>]

\* no file was written, no diary tool was called
NoDiary ==
    /\ storage = NoFile
    /\ nSaved = 0
    /\ nRejected = 0
    /\ recalled = NotRecalled

\* the plugin is not under study: the metadata has no item, nothing was called
NoPlugin ==
    /\ metadata = [ok |-> TRUE, items |-> [k \in ItemNames \cup HostNames |-> Absent]]
    /\ registered = FALSE
    /\ configLog = <<>>
    /\ NoDiary

\* no call of the toggle_follow tool was made
NoCalls == following = FALSE /\ calls = <<>> /\ requests = <<>>

\* the adapter after __init__ (lines 57-90), its run() scheduled by the host
Constructed ==
    /\ reply_probability \in 0..PScale
    /\ connected = FALSE
    /\ sse_session = None
    /\ bot_user_id = None
    /\ tasks = <<>>
    /\ event_queue = <<>>
    /\ reconnect_delay = _reconnect_delay
    /\ ready = <<"run">>
    /\ cancelReq = [t \in {"sse", "timer"} |-> FALSE]
    /\ pcRun = "init"
    /\ pcSse = "none"
    /\ pcTimer = "none"
    /\ pcTerm = "idle"
    /\ closeWhy = None
    /\ pending = <<>>
    /\ termIdx = 0
    /\ memory = <<>>
    /\ notifLog = <<>>
    /\ wire = <<>>
    /\ cycles = [last |-> "none", n |-> 0, base |-> _reconnect_delay, first |-> TRUE,
                 ended |-> 0]
    /\ nBrowse = 0
    /\ nCmds = 0

\* a run of the whole adapter: every task, the browse command and shutdown
Init ==
    /\ Constructed
    /\ NoPlugin
    /\ NoStream
    /\ NoCalls
    /\ max_memory_items = MaxCapacity
    /\ auto_reply_mentions = TRUE
    /\ token \in BOOLEAN
    /\ auto_browse \in BOOLEAN
    /\ limits = [cycles |-> MaxInputs, notifs |-> MaxInputs, browse |-> MaxInputs,
                 cmds |-> MaxInputs, total |-> MaxInputs,
                 types |-> {"mention", "connected", "non_object"}, chunk |-> 1,
                 marks |-> {"200"}, trace |-> FALSE, wire |-> 0,
                 payloads |-> {NoPayload}, browseErr |-> FALSE]

\* a run of the whole adapter under the scheduling the event loop guarantees:
\* the stream carries notifications and blocks that end the connection
LiveInit ==
    /\ Constructed
    /\ NoPlugin
    /\ NoStream
    /\ NoCalls
    /\ max_memory_items = MaxCapacity
    /\ auto_reply_mentions = TRUE
    /\ token \in BOOLEAN
    /\ auto_browse \in BOOLEAN
    /\ limits = [cycles |-> MaxInputs, notifs |-> MaxInputs, browse |-> MaxInputs,
                 cmds |-> MaxInputs, total |-> MaxInputs,
                 types |-> {"mention", "non_object"}, chunk |-> 1,
                 marks |-> {"200"}, trace |-> FALSE, wire |-> 0,
                 payloads |-> {NoPayload}, browseErr |-> FALSE]

\* a run of the whole adapter in which a browse cycle of the timer may raise
\* and the stream carries blocks that raise in the read loop
ErrorInit ==
    /\ Constructed
    /\ NoPlugin
    /\ NoStream
    /\ NoCalls
    /\ max_memory_items = MaxCapacity
    /\ auto_reply_mentions = TRUE
    /\ token = TRUE
    /\ auto_browse = TRUE
    /\ limits = [cycles |-> MaxInputs, notifs |-> MaxInputs, browse |-> MaxInputs,
                 cmds |-> MaxInputs, total |-> MaxInputs,
                 types |-> {"mention", "non_object"}, chunk |-> 1,
                 marks |-> MarkResults, trace |-> FALSE, wire |-> 0,
                 payloads |-> {NoPayload}, browseErr |-> TRUE]

\* a run of the whole adapter with a token and the browse timer, and both
\* commands
StatusInit ==
    /\ Constructed
    /\ NoPlugin
    /\ NoStream
    /\ NoCalls
    /\ max_memory_items = MaxCapacity
    /\ auto_reply_mentions = TRUE
    /\ token = TRUE
    /\ auto_browse = TRUE
    /\ limits = [cycles |-> MaxInputs, notifs |-> MaxInputs, browse |-> MaxInputs,
                 cmds |-> MaxInputs, total |-> MaxInputs,
                 types |-> {"mention", "connected", "non_object"}, chunk |-> 1,
                 marks |-> {"200"}, trace |-> FALSE, wire |-> 0,
                 payloads |-> {NoPayload}, browseErr |-> FALSE]

\* a run of the read loop through many connection cycles
BackoffInit ==
    /\ Constructed
    /\ NoPlugin
    /\ NoStream
    /\ NoCalls
    /\ max_memory_items = MaxCapacity
    /\ auto_reply_mentions = TRUE
    /\ token = TRUE
    /\ auto_browse = FALSE
    /\ limits = [cycles |-> MaxBackoffCycles, notifs |-> 1, browse |-> 0, cmds |-> 0,
                 total |-> MaxBackoffCycles + 1,
                 types |-> {"mention", "connected", "non_object"}, chunk |-> 1,
                 marks |-> {"200"}, trace |-> FALSE, wire |-> 0,
                 payloads |-> {NoPayload}, browseErr |-> FALSE]

\* a run of the read loop on one connection that the server never ends, over
\* every type of block with a data line that the server sends, and shutdown
GateInit ==
    /\ Constructed
    /\ NoPlugin
    /\ NoStream
    /\ NoCalls
    /\ max_memory_items = MaxCapacity
    /\ auto_reply_mentions = TRUE
    /\ token = TRUE
    /\ auto_browse = FALSE
    /\ limits = [cycles |-> 0, notifs |-> MaxNotifs, browse |-> 0, cmds |-> 0,
                 total |-> MaxNotifs, types |-> FrameTypes \ {"like", "no_data"},
                 chunk |-> MaxChunk, marks |-> {"200"}, trace |-> FALSE, wire |-> 0,
                 payloads |-> {NoPayload}, browseErr |-> FALSE]

\* a run of the read loop on one connection over mentions and keep-alives, the
\* mark-read call ending in every way, and shutdown
MarkInit ==
    /\ Constructed
    /\ NoPlugin
    /\ NoStream
    /\ NoCalls
    /\ max_memory_items = MaxCapacity
    /\ auto_reply_mentions = TRUE
    /\ token = TRUE
    /\ auto_browse = FALSE
    /\ limits = [cycles |-> 0, notifs |-> MaxNotifs, browse |-> 0, cmds |-> 0,
                 total |-> MaxNotifs, types |-> {"mention", "pong"},
                 chunk |-> MaxChunk, marks |-> MarkResults, trace |-> FALSE, wire |-> 0,
                 payloads |-> {NoPayload}, browseErr |-> FALSE]

\* a run of the read loop on one connection over notifications of every type
\* and body, with automatic reply configured on or off, and shutdown
EventInit ==
    /\ Constructed
    /\ NoPlugin
    /\ NoStream
    /\ NoCalls
    /\ max_memory_items = MaxCapacity
    /\ auto_reply_mentions \in BOOLEAN
    /\ token = TRUE
    /\ auto_browse = FALSE
    /\ limits = [cycles |-> 0, notifs |-> 1, browse |-> 0, cmds |-> 0,
                 total |-> 1, types |-> NotifTypes, chunk |-> 1,
                 marks |-> {"200"}, trace |-> FALSE, wire |-> 0,
                 payloads |-> Payloads, browseErr |-> FALSE]

\* a run of the toggle_follow tool alone, the bot following the user or not
FollowInit ==
    /\ Constructed
    /\ NoPlugin
    /\ NoStream
    /\ max_memory_items = MaxCapacity
    /\ auto_reply_mentions = TRUE
    /\ token = TRUE
    /\ auto_browse = FALSE
    /\ following \in BOOLEAN /\ calls = <<>> /\ requests = <<>>
    /\ limits = [cycles |-> 0, notifs |-> 0, browse |-> 0, cmds |-> 0,
                 total |-> 0, types |-> {}, chunk |-> 0,
                 marks |-> {}, trace |-> FALSE, wire |-> 0,
                 payloads |-> {NoPayload}, browseErr |-> FALSE]

\* a traced run over a notification and the blocks no branch handles: the
\* heartbeat acknowledgment, an unknown type, a block without data
SilentTypes == {"pong", "like", "no_data"}

SilentInit ==
    /\ Constructed
    /\ NoPlugin
    /\ NoStream
    /\ NoCalls
    /\ max_memory_items = MaxCapacity
    /\ auto_reply_mentions = TRUE
    /\ token = TRUE
    /\ auto_browse = FALSE
    /\ limits = [cycles |-> 1, notifs |-> MaxWire, browse |-> 0, cmds |-> 0,
                 total |-> MaxWire + 1, types |-> SilentTypes \cup {"mention"},
                 chunk |-> MaxChunk, marks |-> {"200"}, trace |-> TRUE,
                 wire |-> MaxWire, payloads |-> {NoPayload}, browseErr |-> FALSE]

\* block types of a traced run: a notification and every other kind of block
RouterTypes == {"mention", "new_thread", "connected", "bad_json", "non_object"}

\* a run of the read loop that records the blocks of each connection; the
\* server may end the first connection
RouterInit ==
    /\ Constructed
    /\ NoPlugin
    /\ NoStream
    /\ NoCalls
    /\ max_memory_items = MaxCapacity
    /\ auto_reply_mentions = TRUE
    /\ token = TRUE
    /\ auto_browse = FALSE
    /\ limits = [cycles |-> 1, notifs |-> MaxWire, browse |-> 0, cmds |-> 0,
                 total |-> MaxWire + 1, types |-> RouterTypes, chunk |-> MaxChunk,
                 marks |-> {"200"}, trace |-> TRUE, wire |-> MaxWire,
                 payloads |-> {NoPayload}, browseErr |-> FALSE]

\* a run of the memory ring alone, for every capacity
RingInit ==
    /\ Constructed
    /\ NoPlugin
    /\ NoStream
    /\ NoCalls
    /\ max_memory_items \in 1..MaxCapacity
    /\ auto_reply_mentions = TRUE
    /\ token = TRUE
    /\ auto_browse = FALSE
    /\ limits = [cycles |-> 0, notifs |-> 0, browse |-> 0, cmds |-> 0,
                 total |-> 0, types |-> {}, chunk |-> 0,
                 marks |-> {}, trace |-> FALSE, wire |-> 0,
                 payloads |-> {NoPayload}, browseErr |-> FALSE]

Runs(t) == ready # <<>> /\ Head(ready) = t

\* ---------------------------------------------------------------- _run
\* `if not self.token:` the adapter logs an error and _run returns
DisabledNever(tok) == FALSE
Disabled(tok) == ~tok

RunStart ==
    /\ Runs("run") /\ pcRun = "init"
    /\ IF Disabled(token)
       THEN /\ pcRun' = "done"
            /\ ready' = Tail(ready)
            /\ UNCHANGED <<tasks, pcSse, pcTimer>>
       ELSE /\ pcRun' = "gather"
            /\ tasks' = IF auto_browse THEN <<"sse", "timer">> ELSE <<"sse">>
            /\ ready' = Tail(ready) \o tasks'
            /\ pcSse' = "new"
            /\ pcTimer' = IF auto_browse THEN "new" ELSE "none"
    /\ UNCHANGED <<confVars, decVars, followVars, pluginVars, connected, sse_session, bot_user_id, event_queue,
                   memory, reconnect_delay, cancelReq, pcTerm, closeWhy, pending,
                   termIdx, obsVars>>


\* ------------------------------------------------- _sse_loop / _sse_connect
\* what no step of the read loop task writes
sseFrame == <<confVars, decVars, followVars, pluginVars, tasks, memory, pcTimer, pcTerm, termIdx, nBrowse, nCmds,
              limits>>

\* the cancellation requested of the read loop task has been thrown into it
Delivered == [cancelReq EXCEPT !["sse"] = FALSE]

\* The finally block of _sse_connect: self._connected = False, then
\* `await session.close()` (the session is open: only this block and
\* terminate(), after the task has finished, close it).  `o` is how the
\* attempt ended, None when it is a cancellation that unwinds.
SseFinallyKeepsFlag(why, o) ==
    /\ connected' = connected
    /\ pcSse' = "close"
    /\ closeWhy' = why
    /\ cycles' = IF o = None THEN cycles ELSE EndCycle(cycles, o, reconnect_delay)
    /\ cancelReq' = IF why = "cancel" THEN Delivered ELSE cancelReq
    /\ ready' = Tail(ready)
    /\ UNCHANGED <<sse_session, reconnect_delay>>
SseFinally(why, o) ==
    /\ connected' = FALSE
    /\ pcSse' = "close"
    /\ closeWhy' = why
    /\ cycles' = IF o = None THEN cycles ELSE EndCycle(cycles, o, reconnect_delay)
    /\ cancelReq' = IF why = "cancel" THEN Delivered ELSE cancelReq
    /\ ready' = Tail(ready)
    /\ UNCHANGED <<sse_session, reconnect_delay>>

\* inputs of the environment so far
Used == cycles.ended + Len(notifLog) + nBrowse + nCmds

\* the environment may still end a connection cycle
MayEnd == cycles.ended < limits.cycles /\ Used < limits.total

\* the blocks the environment may still send, and the chunks made of them
MaySendFrames ==
    {f \in Frames :
        /\ f.type \in limits.types
        /\ f.payload \in limits.payloads
        /\ f.type \in NotifTypes => Len(notifLog) < limits.notifs /\ Used < limits.total
        /\ f.type = "non_object" => MayEnd}

MaySend(chunk) ==
    /\ limits.trace => Len(wire) + Len(chunk) <= limits.wire
    /\ Len(notifLog) + NotifCount(chunk) <= limits.notifs
    /\ Used + NotifCount(chunk) <= limits.total
    /\ \A i \in 1..Len(chunk) :
          chunk[i].type = "non_object" => Used + NotifCount(chunk) < limits.total

\* CancelledError leaves _sse_loop: the task is finished
SseEnds ==
    /\ pcSse' = "done"
    /\ cancelReq' = Delivered
    /\ ready' = OnDone(Tail(ready), "sse")

\* after the try/except of _sse_loop: self._connected = False and
\* `await asyncio.sleep(reconnect_delay)`
SseBackoff(d) ==
    /\ reconnect_delay' = d
    /\ connected' = FALSE
    /\ pcSse' = "sleep"
    /\ ready' = Tail(ready)

\* first step of the task: reconnect_delay = self._reconnect_delay, then
\* _sse_connect opens a session and awaits session.get
SseStart ==
    /\ Runs("sse") /\ pcSse = "new"
    /\ IF cancelReq["sse"]
       THEN /\ SseEnds
            /\ UNCHANGED <<sse_session, reconnect_delay>>
       ELSE /\ reconnect_delay' = _reconnect_delay
            /\ sse_session' = "open"
            /\ pcSse' = "get"
            /\ ready' = Tail(ready)
            /\ UNCHANGED cancelReq
    /\ pcRun' = GatherAfter(pcSse')
    /\ UNCHANGED <<sseFrame, connected, bot_user_id, event_queue, closeWhy, pending,
                   notifLog, wire, cycles>>

\* session.get answers (or fails): lines 186-201
SseGetDone ==
    /\ Runs("sse") /\ pcSse = "get"
    /\ IF cancelReq["sse"]
       THEN SseFinally("cancel", None) /\ UNCHANGED wire
       ELSE \/ MayEnd /\ SseFinally("raise", "error") /\ UNCHANGED wire
            \/ MayEnd /\ SseFinally("return", "401") /\ UNCHANGED wire
            \/ MayEnd /\ SseFinally("return", "non200") /\ UNCHANGED wire
            \/ /\ connected' = TRUE
               /\ pcSse' = "read"
               /\ wire' = <<>>
               /\ ready' = Tail(ready)
               /\ UNCHANGED <<sse_session, reconnect_delay, cancelReq, closeWhy, cycles>>
    /\ pcRun' = GatherAfter(pcSse')
    /\ UNCHANGED <<sseFrame, bot_user_id, event_queue, pending, notifLog>>

\* the state after the blocks of a chunk were handled up to result r
SseHandled(r, cr) ==
    /\ bot_user_id' = r.bot
    /\ notifLog' = r.log
    /\ pending' = r.rest
    /\ CASE r.stop = "end" ->
              /\ pcSse' = "read"
              /\ ready' = Tail(ready)
              /\ cancelReq' = cr
              /\ UNCHANGED <<connected, sse_session, reconnect_delay, closeWhy, cycles>>
         [] r.stop = "mark" ->
              /\ pcSse' = "mark"
              /\ ready' = Tail(ready)
              /\ cancelReq' = cr
              /\ UNCHANGED <<connected, sse_session, reconnect_delay, closeWhy, cycles>>
         [] OTHER -> SseFinally("raise", "raise")

\* `async for chunk in resp.content`: a chunk, the end of the stream, or a
\* read error: lines 205-215
SseReadDone ==
    /\ Runs("sse") /\ pcSse = "read"
    /\ IF cancelReq["sse"]
       THEN /\ SseFinally("cancel", None)
            /\ UNCHANGED <<bot_user_id, notifLog, pending, wire>>
       ELSE \/ /\ MayEnd
               /\ SseFinally("return", "eof")
               /\ UNCHANGED <<bot_user_id, notifLog, pending, wire>>
            \/ /\ MayEnd
               /\ SseFinally("raise", "raise")
               /\ UNCHANGED <<bot_user_id, notifLog, pending, wire>>
            \/ \E chunk \in Chunks(MaySendFrames, limits.chunk) :
                 /\ MaySend(chunk)
                 /\ wire' = IF limits.trace THEN wire \o chunk ELSE wire
                 /\ SseHandled(HandleBlocks(chunk, bot_user_id, notifLog,
                                            reply_probability), cancelReq)
    /\ pcRun' = GatherAfter(pcSse')
    /\ UNCHANGED <<sseFrame, event_queue>>

\* The mark-read call of _handle_notification returns, whatever its result
\* (200, another status, an exception or timeout that _mark_notifications_read
\* logs): lines 357-363, self.commit_event(event), then the rest of the chunk.
SseMarkDone ==
    /\ Runs("sse") /\ pcSse = "mark"
    /\ IF cancelReq["sse"] /\ ~CatchesCancel("mark")
       THEN /\ SseFinally("cancel", None)
            /\ UNCHANGED <<bot_user_id, notifLog, pending, event_queue>>
       ELSE \E res \in limits.marks :
              LET nid == Len(notifLog)
                  log == [notifLog EXCEPT ![nid].done = TRUE, ![nid].result = res]
              IN  IF MarkSwallows(res)
                  THEN /\ event_queue' =
                            Append(event_queue,
                                   NotificationEvent(nid, notifLog[nid]))
                       /\ SseHandled(HandleBlocks(pending, bot_user_id, log,
                                                  reply_probability), Delivered)
                  ELSE /\ SseFinally("raise", "raise")
                       /\ notifLog' = [notifLog EXCEPT ![nid].result = res]
                       /\ UNCHANGED <<bot_user_id, pending, event_queue>>
    /\ pcRun' = GatherAfter(pcSse')
    /\ UNCHANGED <<sseFrame, wire>>

\* session.close() of the finally block is over: _sse_connect returns or
\* re-raises into the try of _sse_loop, lines 164-174
SseCloseDone ==
    /\ Runs("sse") /\ pcSse = "close"
    /\ IF cancelReq["sse"]
       THEN \* cancelled while closing: the close may or may not have happened
            /\ sse_session' \in {"open", "closed"}
            /\ IF CatchesCancel("loop")
               THEN SseBackoff(reconnect_delay) /\ cancelReq' = Delivered
               ELSE SseEnds /\ UNCHANGED <<connected, reconnect_delay>>
       ELSE /\ sse_session' = "closed"
            /\ CASE \/ closeWhy = "cancel" /\ ~CatchesCancel("loop")
                    \/ closeWhy = "raise" /\ ~LoopCatches(cycles.last) ->
                      /\ SseEnds
                      /\ UNCHANGED <<connected, reconnect_delay>>
                 [] closeWhy = "return" ->
                      /\ SseBackoff(DelayAfterReturn(reconnect_delay))
                      /\ UNCHANGED cancelReq
                 [] OTHER ->
                      /\ SseBackoff(reconnect_delay)
                      /\ UNCHANGED cancelReq
    /\ closeWhy' = None
    /\ pcRun' = GatherAfter(pcSse')
    /\ UNCHANGED <<sseFrame, bot_user_id, event_queue, pending, notifLog, wire,
                   cycles>>

\* the backoff sleep is over: line 175, then the next _sse_connect
SseSleepDone ==
    /\ Runs("sse") /\ pcSse = "sleep"
    /\ IF cancelReq["sse"]
       THEN /\ SseEnds
            /\ UNCHANGED <<sse_session, reconnect_delay>>
       ELSE /\ reconnect_delay' = NextDelay(reconnect_delay)
            /\ sse_session' = "open"
            /\ pcSse' = "get"
            /\ ready' = Tail(ready)
            /\ UNCHANGED cancelReq
    /\ pcRun' = GatherAfter(pcSse')
    /\ UNCHANGED <<sseFrame, connected, bot_user_id, event_queue, closeWhy, pending,
                   notifLog, wire, cycles>>


\* -------------------------------------------- _auto_browse_loop / _do_browse
timerFrame == <<confVars, decVars, followVars, pluginVars, connected, sse_session, bot_user_id, tasks, memory,
                reconnect_delay, pcSse, pcTerm, closeWhy, pending, termIdx,
                notifLog, wire, cycles,
                nBrowse, nCmds, limits>>

TimerEnds ==
    /\ pcTimer' = "done"
    /\ cancelReq' = [cancelReq EXCEPT !["timer"] = FALSE]
    /\ ready' = OnDone(Tail(ready), "timer")
    /\ UNCHANGED event_queue

\* first step of the task: await asyncio.sleep(60)
TimerStart ==
    /\ Runs("timer") /\ pcTimer = "new"
    /\ IF cancelReq["timer"]
       THEN TimerEnds
       ELSE /\ pcTimer' = "sleep60"
            /\ ready' = Tail(ready)
            /\ UNCHANGED <<cancelReq, event_queue>>
    /\ pcRun' = GatherAfter(pcTimer')
    /\ UNCHANGED timerFrame

\* the loop calls _do_browse at every firing; it does not look at _connected
TimerBrowsesWhenConnected(c) == c
TimerBrowses(c) == TRUE

\* `except Exception` around `await self._do_browse()`, lines 397-400: an
\* error raised in the cycle is logged and the loop goes on
TimerCatchesNothing == FALSE
TimerCatches == TRUE

\* A sleep of the timer is over: _do_browse commits the browse event, or
\* raises before it does (ok = FALSE: _format_browse_content or commit_event
\* fails), then await asyncio.sleep(self.browse_interval).
TimerFire ==
    /\ Runs("timer") /\ pcTimer \in {"sleep60", "sleepInt"}
    /\ IF cancelReq["timer"]
       THEN TimerEnds
       ELSE \E ok \in (IF limits.browseErr THEN BOOLEAN ELSE {TRUE}) :
              IF ok \/ TimerCatches
              THEN /\ event_queue' = IF ok /\ TimerBrowses(connected)
                                      THEN Append(event_queue, BrowseEvent)
                                      ELSE event_queue
                   /\ pcTimer' = "sleepInt"
                   /\ ready' = Tail(ready)
                   /\ UNCHANGED cancelReq
              ELSE TimerEnds
    /\ pcRun' = GatherAfter(pcTimer')
    /\ UNCHANGED timerFrame

\* ------------------------------------------------ astrbook_browse (main.py)
\* `if not adapter._connected: ... return`
BrowseRefusesNever(c) == FALSE
BrowseRefuses(c) == ~c

\* the task that runs the browse cycle of the command: a new one
BrowseTaskIsTimer == "timer"
BrowseTask == "browse"

\* the command handler: asyncio.create_task(adapter._do_browse()) unless refused
BrowseCmd ==
    /\ Runs("cmd")
    /\ ready' = IF BrowseRefuses(connected) THEN Tail(ready)
                ELSE Append(Tail(ready), BrowseTask)
    /\ UNCHANGED <<confVars, decVars, followVars, pluginVars, adapterVars, cancelReq, pcVars, obsVars>>

\* the task the command created runs _do_browse; nothing keeps a reference to it
ManualBrowseDisconnects ==
    /\ Runs("browse")
    /\ event_queue' = Append(event_queue, BrowseEvent)
    /\ connected' = FALSE
    /\ ready' = Tail(ready)
    /\ UNCHANGED <<confVars, decVars, followVars, pluginVars, sse_session, bot_user_id, tasks, memory,
                   reconnect_delay, cancelReq, pcVars, obsVars>>
ManualBrowse ==
    /\ Runs("browse")
    /\ event_queue' = Append(event_queue, BrowseEvent)
    /\ ready' = Tail(ready)
    /\ UNCHANGED <<confVars, decVars, followVars, pluginVars, connected, sse_session, bot_user_id, tasks, memory,
                   reconnect_delay, cancelReq, pcVars, obsVars>>

\* ------------------------------------------------ astrbook_status (main.py)
\* The command handler reads _connected, auto_browse, auto_reply_mentions,
\* reply_probability, the memory and the limits of the adapter, asks the
\* conversation manager for the persona, and answers with the report: it
\* writes no field of the adapter.
StatusCmd ==
    /\ Runs("status")
    /\ ready' = Tail(ready)
    /\ UNCHANGED <<confVars, decVars, followVars, pluginVars, adapterVars, cancelReq, pcVars, obsVars>>

\* ------------------------------------------------------------- terminate()
termFrame == <<confVars, decVars, followVars, pluginVars, bot_user_id, event_queue, memory, reconnect_delay, pcRun, pcSse,
               pcTimer, closeWhy, pending, obsVars>>

\* first task of _tasks, from index `from` on, that `await task` must wait for
FirstLive(from) ==
    LET S == {i \in from..Len(tasks) : TaskPc(tasks[i]) # "done"}
    IN  IF S = {} THEN 0 ELSE CHOOSE i \in S : \A j \in S : i <= j

\* lines 147-155: after the await loop
TermFinishWithoutClose(q) ==
    /\ tasks' = <<>>
    /\ termIdx' = 0
    /\ ready' = q
    /\ connected' = FALSE
    /\ pcTerm' = "done"
    /\ UNCHANGED sse_session
TermFinish(q) ==
    /\ tasks' = <<>>
    /\ termIdx' = 0
    /\ ready' = q
    /\ IF sse_session = "open"
       THEN /\ pcTerm' = "closing"
            /\ UNCHANGED <<sse_session, connected>>
       ELSE /\ sse_session' = None
            /\ connected' = FALSE
            /\ pcTerm' = "done"

\* lines 142-146: `await task` returns at once for a finished task
TermAwait(q, from) ==
    IF FirstLive(from) # 0
    THEN /\ pcTerm' = "await"
         /\ termIdx' = FirstLive(from)
         /\ ready' = q
         /\ UNCHANGED <<tasks, sse_session, connected>>
    ELSE TermFinish(q)

\* lines 137-139: task.cancel() for every task not done; a cancelled task that
\* is suspended is scheduled to run with CancelledError
TermStart ==
    /\ Runs("term") /\ pcTerm = "called"
    /\ LET live == {t \in Range(tasks) : TaskPc(t) # "done"}
           q1 == IF "sse" \in live THEN Wake(Tail(ready), "sse") ELSE Tail(ready)
           q2 == IF "timer" \in live THEN Wake(q1, "timer") ELSE q1
       IN  /\ cancelReq' = [t \in {"sse", "timer"} |-> cancelReq[t] \/ t \in live]
           /\ TermAwait(q2, 1)
    /\ UNCHANGED termFrame

\* the awaited task has finished
TermResume ==
    /\ Runs("term") /\ pcTerm = "await"
    /\ TermAwait(Tail(ready), termIdx)
    /\ UNCHANGED <<termFrame, cancelReq>>

\* `await self._sse_session.close()` is over
TermCloseDone ==
    /\ Runs("term") /\ pcTerm = "closing"
    /\ sse_session' = None
    /\ connected' = FALSE
    /\ pcTerm' = "done"
    /\ ready' = Tail(ready)
    /\ UNCHANGED <<termFrame, cancelReq, tasks, termIdx>>

\* ---------------------------------------------------------- stream decoder
\* Bytes and characters are numbers: a byte is 0..255, a character its code
\* point.  Code gives the ASCII characters the blocks are written with.
Code ==
    [c \in {"d", "a", "t", "e", "v", "n", "m", "c", ":", " ", "{", "}", "\"", "\n"} |->
        CASE c = "\n" -> 10 [] c = " " -> 32 [] c = "\"" -> 34 [] c = ":" -> 58
          [] c = "a" -> 97 [] c = "c" -> 99 [] c = "d" -> 100 [] c = "e" -> 101
          [] c = "m" -> 109 [] c = "n" -> 110 [] c = "t" -> 116 [] c = "v" -> 118
          [] c = "{" -> 123 [] c = "}" -> 125]

Ascii(cs) == [i \in 1..Len(cs) |-> Code[cs[i]]]

\* U+FFFD, what errors="replace" puts for bytes that are not UTF-8
Replacement == 65533

IsContinuation(b) == b >= 128 /\ b <= 191

\* continuation bytes a lead byte asks for (sequences of up to three bytes)
Needs(b) ==
    CASE b >= 194 /\ b <= 223 -> 1
      [] b >= 224 /\ b <= 239 -> 2
      [] OTHER -> 0

\* continuation bytes that follow position i, at most k of them
RECURSIVE Follows(_, _, _)
Follows(bytes, i, k) ==
    IF k = 0 \/ i + 1 > Len(bytes) \/ ~IsContinuation(bytes[i + 1]) THEN 0
    ELSE 1 + Follows(bytes, i + 1, k - 1)

\* `chunk.decode("utf-8", errors="replace")` from position i on: a complete
\* sequence gives its character, an incomplete or stray one U+FFFD
RECURSIVE Utf8From(_, _)
Utf8From(bytes, i) ==
    IF i > Len(bytes) THEN <<>>
    ELSE LET b == bytes[i]
             k == Needs(b)
             m == Follows(bytes, i, k)
         IN  CASE b < 128 -> <<b>> \o Utf8From(bytes, i + 1)
               [] k > 0 /\ m = k /\ k = 1 ->
                    <<(b - 192) * 64 + (bytes[i + 1] - 128)>>
                        \o Utf8From(bytes, i + 2)
               [] k > 0 /\ m = k /\ k = 2 ->
                    <<(b - 224) * 4096 + (bytes[i + 1] - 128) * 64
                        + (bytes[i + 2] - 128)>> \o Utf8From(bytes, i + 3)
               [] OTHER -> <<Replacement>> \o Utf8From(bytes, i + 1 + m)

\* the decoding of each chunk on its own, as the code does
Utf8Decode(bytes) == Utf8From(bytes, 1)

\* position of the first "\n\n" of the text, 0 if there is none
SepAt(text) ==
    LET S == {i \in 1..(Len(text) - 1) : text[i] = 10 /\ text[i + 1] = 10}
    IN  IF S = {} THEN 0 ELSE CHOOSE i \in S : \A j \in S : i <= j

\* block.split("\n")
RECURSIVE Lines(_)
Lines(text) ==
    LET S == {i \in 1..Len(text) : text[i] = 10}
    IN  IF S = {} THEN <<text>>
        ELSE LET i == CHOOSE i \in S : \A j \in S : i <= j
             IN  <<SubSeq(text, 1, i - 1)>> \o Lines(SubSeq(text, i + 1, Len(text)))

StartsWith(line, prefix) ==
    Len(line) >= Len(prefix) /\ SubSeq(line, 1, Len(prefix)) = prefix

DataPrefix == Ascii(<<"d", "a", "t", "a", ":", " ">>)

\* "\n".join(...)
RECURSIVE Join(_)
Join(ls) ==
    IF Len(ls) = 0 THEN <<>>
    ELSE IF Len(ls) = 1 THEN ls[1]
    ELSE ls[1] \o <<10>> \o Join(Tail(ls))

\* json.loads for the documents {"c":"<text>"}, <text> without quote, backslash
\* or control character; any other text here is not JSON
JsonOpen == Ascii(<<"{", "\"", "c", "\"", ":", "\"">>)
JsonClose == Ascii(<<"\"", "}">>)

JsonLoads(text) ==
    LET n == Len(text)
        inner == SubSeq(text, Len(JsonOpen) + 1, n - Len(JsonClose))
    IN  IF /\ n >= Len(JsonOpen) + Len(JsonClose)
           /\ StartsWith(text, JsonOpen)
           /\ SubSeq(text, n - Len(JsonClose) + 1, n) = JsonClose
           /\ \A i \in 1..Len(inner) : inner[i] >= 32 /\ inner[i] \notin {34, 92}
        THEN [ok |-> TRUE, value |-> [c |-> inner]]
        ELSE [ok |-> FALSE, value |-> [c |-> <<>>]]

\* _parse_sse_block: the values it hands to _handle_message, none or one
ParseBlock(block) ==
    LET ls == Lines(block)
        data_lines == SelectSeq(ls, LAMBDA l : StartsWith(l, DataPrefix))
        stripped == [i \in 1..Len(data_lines) |->
                        SubSeq(data_lines[i], Len(DataPrefix) + 1, Len(data_lines[i]))]
        data == JsonLoads(Join(stripped))
    IN  IF Len(data_lines) = 0 \/ ~data.ok THEN <<>> ELSE <<data.value>>

\* `while "\n\n" in buffer`: the blocks taken from the text and what stays
RECURSIVE Drain(_)
Drain(text) ==
    IF SepAt(text) = 0 THEN [buffer |-> text, events |-> <<>>]
    ELSE LET i == SepAt(text)
             r == Drain(SubSeq(text, i + 2, Len(text)))
         IN  [buffer |-> r.buffer,
              events |-> ParseBlock(SubSeq(text, 1, i - 1)) \o r.events]

\* lines 205-215 for one chunk
Feed(buf, chunk) == Drain(buf \o Utf8Decode(chunk))

\* the blocks a run of the decoder receives: a two-byte character, ASCII only,
\* and an event line with a three-byte character
DataBlocks ==
    { Ascii(<<"d", "a", "t", "a", ":", " ", "{", "\"", "c", "\"", ":", "\"">>)
        \o <<195, 169>> \o Ascii(<<"\"", "}", "\n", "\n">>),
      Ascii(<<"d", "a", "t", "a", ":", " ", "{", "\"", "c", "\"", ":", "\"", "a",
              "\"", "}", "\n", "\n">>) }
Blocks ==
    DataBlocks \cup
    { Ascii(<<"e", "v", "e", "n", "t", ":", " ", "m", "\n",
              "d", "a", "t", "a", ":", " ", "{", "\"", "c", "\"", ":", "\"">>)
        \o <<228, 184, 173>> \o Ascii(<<"\"", "}", "\n", "\n">>) }

\* a run of the decoder over one block, cut into chunks at any places
DecodeInit ==
    /\ Constructed
    /\ NoPlugin
    /\ max_memory_items = MaxCapacity
    /\ auto_reply_mentions = TRUE
    /\ token = TRUE
    /\ auto_browse = FALSE
    /\ limits = [cycles |-> 0, notifs |-> 0, browse |-> 0, cmds |-> 0,
                 total |-> 0, types |-> {}, chunk |-> 0,
                 marks |-> {}, trace |-> FALSE, wire |-> 0,
                 payloads |-> {NoPayload}, browseErr |-> FALSE]
    /\ NoCalls
    /\ stream \in Blocks
    /\ fed = <<>>
    /\ buffer = <<>>
    /\ delivered = <<>>
    /\ cuts = <<>>

\* the stream yields the next chunk, of any length
DecodeChunk ==
    /\ stream # <<>>
    /\ \E n \in 1..Len(stream) :
          LET chunk == SubSeq(stream, 1, n)
              r == Feed(buffer, chunk)
          IN  /\ stream' = SubSeq(stream, n + 1, Len(stream))
              /\ fed' = fed \o chunk
              /\ buffer' = r.buffer
              /\ delivered' = delivered \o r.events
    /\ UNCHANGED <<cuts, confVars, followVars, pluginVars, adapterVars, loopVars, pcVars, obsVars>>

\* a run of the decoder over connections that end at any place of a block
ResumeInit ==
    /\ Constructed
    /\ NoPlugin
    /\ max_memory_items = MaxCapacity
    /\ auto_reply_mentions = TRUE
    /\ token = TRUE
    /\ auto_browse = FALSE
    /\ limits = [cycles |-> MaxResumes, notifs |-> 0, browse |-> 0, cmds |-> 0,
                 total |-> 0, types |-> {}, chunk |-> 0,
                 marks |-> {}, trace |-> FALSE, wire |-> 0,
                 payloads |-> {NoPayload}, browseErr |-> FALSE]
    /\ NoCalls
    /\ stream \in DataBlocks
    /\ fed = <<>>
    /\ buffer = <<>>
    /\ delivered = <<>>
    /\ cuts = <<>>

\* `buffer = ""`, line 204: the buffer is a local of _sse_connect, every
\* connection starts with an empty one
FreshBufferKept(buf) == buf
FreshBuffer(buf) == <<>>

\* The connection ends (the stream ends or the read raises) with whatever is
\* in the buffer, and the next call of _sse_connect reads a new stream: one
\* that goes on where the last one stopped, or one that starts a block.
Reconnected ==
    /\ Len(cuts) < limits.cycles
    /\ fed # <<>>
    /\ cuts' = Append(cuts, Len(fed))
    /\ buffer' = FreshBuffer(buffer)
    /\ stream' \in {stream} \cup DataBlocks
    /\ stream' # <<>>
    /\ UNCHANGED <<fed, delivered>>
    /\ UNCHANGED <<confVars, followVars, pluginVars, adapterVars, loopVars, pcVars, obsVars>>

\* ------------------------------------------------------------- memory ring
\* memory kinds of an entry
MemoryKinds == {"mentioned", "replied", "new_thread", "diary"}

\* the n-th entry inserted since construction
MemoryEntry(n, kind) == [n |-> n, kind |-> kind]

Inserted(ring) == IF ring = <<>> THEN 0 ELSE ring[Len(ring)].n

\* ForumMemory(max_items=cap): insertion appends the entry and evicts the
\* oldest one when the ring is full
RingAddNoEviction(ring, e, cap) == Append(ring, e)
RingAdd(ring, e, cap) ==
    IF Len(ring) >= cap THEN Append(Tail(ring), e) ELSE Append(ring, e)

\* a writer of the ring inserts an entry
MemoryAdd ==
    /\ Inserted(memory) < MaxAdds
    /\ \E kind \in MemoryKinds :
          memory' = RingAdd(memory, MemoryEntry(Inserted(memory) + 1, kind),
                            max_memory_items)
    /\ UNCHANGED <<confVars, decVars, followVars, pluginVars, connected, sse_session, bot_user_id, tasks, event_queue,
                   reconnect_delay, loopVars, pcVars, obsVars>>

\* ------------------------------------------------- toggle_follow (main.py)
\* user_id and action arguments of a call: 0 is the id that `not user_id`
\* rejects, "block" an action that is neither follow nor unfollow
FollowUsers == {0, 5}
FollowActions == {"follow", "unfollow", "block"}

\* a call of the tool: where it is, its arguments, what the profile request
\* returned ("error", or is_following) and what the tool returns
Call(pc, u, a) ==
    [pc |-> pc, user_id |-> u, action |-> a, profile |-> "none", result |-> "none"]

followFrame == <<confVars, decVars, pluginVars, adapterVars, loopVars, pcVars, obsVars>>

\* lines 884-891: the arguments are checked, then
\* `await self._make_request("GET", f"/api/auth/users/{user_id}")`
ToggleFollow ==
    /\ Len(calls) < MaxCalls
    /\ \E u \in FollowUsers, a \in FollowActions :
          calls' = Append(calls,
                     IF u = 0
                     THEN [Call("done", u, a) EXCEPT !.result = "user_id is required"]
                     ELSE IF a \notin {"follow", "unfollow"}
                     THEN [Call("done", u, a) EXCEPT !.result = "bad action"]
                     ELSE Call("get", u, a))
    /\ UNCHANGED <<followFrame, following, requests>>

\* the server answers the profile request with is_following as it is then, or
\* the request fails (_make_request returns {"error": ...})
ProfileAnswered ==
    \E c \in 1..Len(calls) :
        /\ calls[c].pc = "get"
        /\ \E r \in {"error", IF following THEN "following" ELSE "not following"} :
              calls' = [calls EXCEPT ![c].pc = "got", ![c].profile = r]
        /\ UNCHANGED <<followFrame, following, requests>>

\* lines 892-913: the call resumes with the profile and returns, or sends the
\* follow (POST /api/follows) or unfollow (DELETE /api/follows/{user_id})
\* request and awaits it
ToggleFollowDecide ==
    \E c \in 1..Len(calls) :
        /\ calls[c].pc = "got"
        /\ LET call == calls[c]
               is_following == call.profile = "following"
           IN  CASE call.profile = "error" ->
                      /\ calls' = [calls EXCEPT ![c].pc = "done",
                                                ![c].result = "failed to get user info"]
                      /\ UNCHANGED requests
                 [] call.profile # "error" /\ (call.action = "follow") = is_following ->
                      /\ calls' = [calls EXCEPT ![c].pc = "done",
                                                ![c].result = "no action needed"]
                      /\ UNCHANGED requests
                 [] OTHER ->
                      /\ calls' = [calls EXCEPT ![c].pc = "request"]
                      /\ requests' = Append(requests,
                                            [call |-> c, kind |-> call.action,
                                             user_id |-> call.user_id,
                                             following |-> following])
        /\ UNCHANGED <<followFrame, following>>

\* the server handles the follow or unfollow request, or the request fails
FollowAnswered ==
    \E c \in 1..Len(calls) :
        /\ calls[c].pc = "request"
        /\ \/ /\ following' = (calls[c].action = "follow")
              /\ calls' = [calls EXCEPT ![c].pc = "answered", ![c].result = "ok"]
           \/ /\ UNCHANGED following
              /\ calls' = [calls EXCEPT ![c].pc = "answered", ![c].result = "failed"]
        /\ UNCHANGED <<followFrame, requests>>

\* the call resumes with the answer and returns its message
ToggleFollowReturn ==
    \E c \in 1..Len(calls) :
        /\ calls[c].pc = "answered"
        /\ calls' = [calls EXCEPT ![c].pc = "done"]
        /\ UNCHANGED <<followFrame, following, requests>>

\* ------------------------------------------------------------- environment
Suspended(t) == t \notin Range(ready)

envFrame == <<confVars, decVars, followVars, pluginVars, adapterVars, cancelReq, pcRun, pcSse, pcTimer, closeWhy,
              pending, termIdx, notifLog, wire, cycles, limits>>

\* the server answers the GET, or the stream delivers something
StreamDelivers ==
    /\ pcSse \in {"get", "read"} /\ Suspended("sse")
    /\ ready' = Append(ready, "sse")
    /\ UNCHANGED <<envFrame, pcTerm, nBrowse, nCmds>>

\* the mark-read POST ends: answered, failed, or timed out after 10 s
MarkReturns ==
    /\ pcSse = "mark" /\ Suspended("sse")
    /\ ready' = Append(ready, "sse")
    /\ UNCHANGED <<envFrame, pcTerm, nBrowse, nCmds>>

SessionCloses ==
    /\ pcSse = "close" /\ Suspended("sse")
    /\ ready' = Append(ready, "sse")
    /\ UNCHANGED <<envFrame, pcTerm, nBrowse, nCmds>>

TermSessionCloses ==
    /\ pcTerm = "closing" /\ Suspended("term")
    /\ ready' = Append(ready, "term")
    /\ UNCHANGED <<envFrame, pcTerm, nBrowse, nCmds>>

BackoffElapses ==
    /\ pcSse = "sleep" /\ Suspended("sse")
    /\ ready' = Append(ready, "sse")
    /\ UNCHANGED <<envFrame, pcTerm, nBrowse, nCmds>>

TimerElapses ==
    /\ pcTimer \in {"sleep60", "sleepInt"} /\ Suspended("timer")
    /\ nBrowse < limits.browse /\ Used < limits.total
    /\ nBrowse' = nBrowse + 1
    /\ ready' = Append(ready, "timer")
    /\ UNCHANGED <<envFrame, pcTerm, nCmds>>

\* the host dispatches the `astrbook browse` command
HostBrowse ==
    /\ nCmds < limits.cmds /\ Used < limits.total
    /\ nCmds' = nCmds + 1
    /\ ready' = Append(ready, "cmd")
    /\ UNCHANGED <<envFrame, pcTerm, nBrowse>>

\* the host dispatches the `astrbook status` command
HostStatus ==
    /\ nCmds < limits.cmds /\ Used < limits.total
    /\ nCmds' = nCmds + 1
    /\ ready' = Append(ready, "status")
    /\ UNCHANGED <<envFrame, pcTerm, nBrowse>>

\* the host shuts the adapter down, once, after it has run it
HostTerminate ==
    /\ pcTerm = "idle" /\ pcRun # "init"
    /\ pcTerm' = "called"
    /\ ready' = Append(ready, "term")
    /\ UNCHANGED <<envFrame, nBrowse, nCmds>>

\* ------------------------------------------------------------ specification
TaskStep ==
    \/ RunStart
    \/ SseStart \/ SseGetDone \/ SseReadDone \/ SseMarkDone \/ SseCloseDone
    \/ SseSleepDone
    \/ TimerStart \/ TimerFire
    \/ BrowseCmd \/ ManualBrowse
    \/ TermStart \/ TermResume \/ TermCloseDone

Environment ==
    \/ StreamDelivers \/ MarkReturns \/ SessionCloses \/ TermSessionCloses
    \/ BackoffElapses \/ TimerElapses \/ HostBrowse \/ HostTerminate

Next == TaskStep \/ Environment

Spec == Init /\ [][Next]_vars

\* What the code's scheduling guarantees: the event loop runs every scheduled
\* callback; a sleep ends; session.close() ends; the mark-read POST ends
\* (ClientTimeout(total=10)).  A GET or a read of the stream may hang forever.
Fairness ==
    /\ WF_vars(TaskStep)
    /\ WF_vars(BackoffElapses)
    /\ WF_vars(SessionCloses)
    /\ WF_vars(TermSessionCloses)
    /\ WF_vars(MarkReturns)

LiveSpec == LiveInit /\ [][Next]_vars /\ Fairness

ErrorSpec == ErrorInit /\ [][Next]_vars

StatusNext == Next \/ StatusCmd \/ HostStatus

StatusSpec == StatusInit /\ [][StatusNext]_vars

\* the read loop task alone
LoopStep ==
    \/ RunStart
    \/ SseStart \/ SseGetDone \/ SseReadDone \/ SseMarkDone \/ SseCloseDone
    \/ SseSleepDone

LoopEnvironment ==
    \/ StreamDelivers \/ MarkReturns \/ SessionCloses \/ BackoffElapses

BackoffNext == LoopStep \/ LoopEnvironment

BackoffSpec == BackoffInit /\ [][BackoffNext]_vars

\* the read loop task on one connection, and terminate()
GateNext ==
    \/ RunStart
    \/ SseStart \/ SseGetDone \/ SseReadDone \/ SseMarkDone \/ SseCloseDone
    \/ TermStart \/ TermResume
    \/ StreamDelivers \/ MarkReturns \/ SessionCloses \/ HostTerminate

GateSpec == GateInit /\ [][GateNext]_vars

MarkSpec == MarkInit /\ [][GateNext]_vars

EventSpec == EventInit /\ [][GateNext]_vars

RouterSpec == RouterInit /\ [][BackoffNext]_vars

SilentSpec == SilentInit /\ [][BackoffNext]_vars

\* ------------------------------------- configuration metadata (main.py)
\* a run of initialize() and terminate() of the plugin, in any order, over
\* metadata that may already hold items of the same names; ok is false when
\* CONFIG_METADATA_2 has no platform items dictionary
ConfigInit ==
    /\ Constructed
    /\ NoStream
    /\ NoCalls
    /\ max_memory_items = MaxCapacity
    /\ auto_reply_mentions = TRUE
    /\ token = TRUE
    /\ auto_browse = FALSE
    /\ limits = [cycles |-> 0, notifs |-> 0, browse |-> 0, cmds |-> MaxConfigCalls,
                 total |-> 0, types |-> {}, chunk |-> 0,
                 marks |-> {}, trace |-> FALSE, wire |-> 0,
                 payloads |-> {NoPayload}, browseErr |-> FALSE]
    /\ metadata \in [ok : BOOLEAN,
                      items : {d \in [ItemNames \cup HostNames -> ItemValues] :
                                 \A k \in HostNames : d[k] # "astrbook"}]
    /\ registered = FALSE
    /\ configLog = <<>>
    /\ NoDiary

\* _register_config, lines 1575-1587: the new _registered and items
_register_config(reg, md) ==
    IF reg \/ ~md.ok THEN [registered |-> reg, items |-> md.items]
    ELSE [registered |-> TRUE,
          items |-> [k \in DOMAIN md.items |->
                        IF k \in ItemNames /\ md.items[k] = Absent
                        THEN "astrbook" ELSE md.items[k]]]

\* _unregister_config, lines 1589-1601
_unregister_config(reg, md) ==
    IF ~reg \/ ~md.ok THEN [registered |-> reg, items |-> md.items]
    ELSE [registered |-> FALSE,
          items |-> [k \in DOMAIN md.items |->
                        IF k \in ItemNames THEN Absent ELSE md.items[k]]]

ConfigCall(op) == [op |-> op, registered |-> registered, before |-> metadata.items]

configFrame ==
    <<storage, nSaved, nRejected, recalled, confVars, decVars, followVars, adapterVars,
      loopVars, pcVars, obsVars>>

\* AstrbookPlugin.initialize, lines 1603-1604
PluginInitialize ==
    /\ Len(configLog) < limits.cmds
    /\ LET r == _register_config(registered, metadata)
       IN  /\ registered' = r.registered
           /\ metadata' = [metadata EXCEPT !.items = r.items]
    /\ configLog' = Append(configLog, ConfigCall("initialize"))
    /\ UNCHANGED configFrame

\* AstrbookPlugin.terminate, lines 1606-1607
PluginTerminate ==
    /\ Len(configLog) < limits.cmds
    /\ LET r == _unregister_config(registered, metadata)
       IN  /\ registered' = r.registered
           /\ metadata' = [metadata EXCEPT !.items = r.items]
    /\ configLog' = Append(configLog, ConfigCall("terminate"))
    /\ UNCHANGED configFrame

ConfigNext == PluginInitialize \/ PluginTerminate

ConfigSpec == ConfigInit /\ [][ConfigNext]_vars

\* ---------------------------------------------- forum diary (main.py)
\* A diary text: whitespace, a core that starts and ends with another
\* character (or is empty), whitespace; each given by its length
DiaryTexts ==
    [lead : {0, 1}, core : {0, MinDiaryChars - 1, MinDiaryChars}, trail : {0, 1}]

\* len(diary), and len(diary.strip())
RawLen(d) == d.lead + d.core + d.trail
StripLen(d) == d.core

\* `if not diary or len(diary.strip()) < 10`, line 1174
DiaryTooShort(d) == RawLen(d) = 0 \/ StripLen(d) < MinDiaryChars

\* lines 1194-1202: the n-th accepted diary; its text is told by n
DiaryEntry(n, d) ==
    [memory_type |-> "diary", content |-> n, char_count |-> StripLen(d)]
\* an entry of another memory type found in the file
OtherEntry == [memory_type |-> "replied", content |-> 0, char_count |-> 0]

\* `[m for m in all_data if m.get("memory_type") == "diary"]`, lines 1191, 1250
OnlyDiaries(data) == SelectSeq(data, LAMBDA m : m.memory_type = "diary")

\* seq[-n:] for n > 0
LastOf(seq, n) ==
    IF Len(seq) <= n THEN seq ELSE SubSeq(seq, Len(seq) - n + 1, Len(seq))

\* seq[::-1]
Reversed(seq) == [i \in 1..Len(seq) |-> seq[Len(seq) + 1 - i]]

\* lines 1205-1207: `if len(memories) > 50: memories = memories[-50:]`
KeepLastAll(memories) == memories
KeepLast(memories) ==
    IF Len(memories) > KeptDiaries THEN LastOf(memories, KeptDiaries) ELSE memories

\* diaries saved before the run, the last of them numbered 0
Earlier(k) ==
    [i \in 1..k |-> DiaryEntry(i - k, [lead |-> 0, core |-> MinDiaryChars, trail |-> 0])]

\* a run of the diary tools over a file that is missing, empty, holds entries
\* of other types among diaries, or holds more diaries than the tool keeps
DiaryInit ==
    /\ Constructed
    /\ NoStream
    /\ NoCalls
    /\ max_memory_items = MaxCapacity
    /\ auto_reply_mentions = TRUE
    /\ token = TRUE
    /\ auto_browse = FALSE
    /\ limits = [cycles |-> MaxRejects, notifs |-> 0, browse |-> 0, cmds |-> MaxSaves,
                 total |-> 0, types |-> {}, chunk |-> 0,
                 marks |-> {}, trace |-> FALSE, wire |-> 0,
                 payloads |-> {NoPayload}, browseErr |-> FALSE]
    /\ metadata = [ok |-> TRUE, items |-> [k \in ItemNames \cup HostNames |-> Absent]]
    /\ registered = FALSE
    /\ configLog = <<>>
    /\ storage \in {NoFile, BrokenFile, StorageFile(<<>>),
                     StorageFile(<<OtherEntry>> \o Earlier(2) \o <<OtherEntry>>),
                     StorageFile(Earlier(KeptDiaries + 1))}
    /\ nSaved = 0
    /\ nRejected = 0
    /\ recalled = NotRecalled

diaryFrame ==
    <<metadata, registered, configLog, confVars, decVars, followVars, adapterVars,
      loopVars, pcVars, obsVars>>

\* save_forum_diary, lines 1155-1215. The handler has no await: it runs in
\* one step. A text too short is refused before the file is touched; reading
\* a file that holds no JSON list raises, and the call answers with the error;
\* a write that fails (written = FALSE) leaves a file that holds no list.
SaveForumDiary ==
    \E d \in DiaryTexts, written \in BOOLEAN :
        /\ IF DiaryTooShort(d)
           THEN /\ nRejected < limits.cycles
                /\ nRejected' = nRejected + 1
                /\ UNCHANGED <<storage, nSaved>>
           ELSE IF ~storage.valid
           THEN UNCHANGED <<storage, nSaved, nRejected>>
           ELSE /\ nSaved < limits.cmds
                /\ LET memories == IF storage.exists THEN OnlyDiaries(storage.data)
                                   ELSE <<>>
                       diary_entry == DiaryEntry(nSaved + 1, d)
                   IN  IF written
                       THEN /\ storage' = StorageFile(KeepLast(Append(memories, diary_entry)))
                            /\ nSaved' = nSaved + 1
                       ELSE /\ storage' = BrokenFile
                            /\ UNCHANGED nSaved
                /\ UNCHANGED nRejected
        /\ UNCHANGED recalled
        /\ UNCHANGED diaryFrame

\* recall_forum_experience, lines 1218-1268: the diaries it lists, newest first
RecallForumExperience ==
    \E limit \in {1, 5} :
        /\ recalled' =
              IF ~storage.exists THEN [kind |-> "nothing", items |-> <<>>]
              ELSE IF ~storage.valid THEN [kind |-> "error", items |-> <<>>]
              ELSE IF storage.data = <<>> THEN [kind |-> "nothing", items |-> <<>>]
              ELSE LET diaries == OnlyDiaries(storage.data)
                   IN  IF diaries = <<>> THEN [kind |-> "no_diary", items |-> <<>>]
                       ELSE [kind |-> "diaries",
                             items |-> Reversed(LastOf(diaries, limit))]
        /\ UNCHANGED <<storage, nSaved, nRejected>>
        /\ UNCHANGED diaryFrame

DiaryNext == SaveForumDiary \/ RecallForumExperience

DiarySpec == DiaryInit /\ [][DiaryNext]_vars

FollowNext ==
    \/ ToggleFollow \/ ProfileAnswered \/ ToggleFollowDecide \/ FollowAnswered
    \/ ToggleFollowReturn

FollowSpec == FollowInit /\ [][FollowNext]_vars

DecodeNext == DecodeChunk

DecodeSpec == DecodeInit /\ [][DecodeNext]_vars

ResumeNext == DecodeChunk \/ Reconnected

ResumeSpec == ResumeInit /\ [][ResumeNext]_vars

RingNext == MemoryAdd

RingSpec == RingInit /\ [][RingNext]_vars


\* ===================================================================== claims
EventsOf(i) == {k \in 1..Len(event_queue) : event_queue[k].nid = i}
InAttempt == pcSse \in {"get", "read", "mark"}

\* C1: after a connection attempt that reached Connected, however the
\* connected period ended (clean end of the stream, or an exception), the
\* delay slept before the next attempt is the floor, 5 s.
C1_FloorAfterConnected ==
    (pcSse = "sleep" /\ cycles.last \in {"eof", "raise"})
        => reconnect_delay = _reconnect_delay

C3_RejectedKeepsSchedule ==
    (pcSse = "sleep" /\ Class(cycles.last) = "rej")
        => reconnect_delay = Min(cycles.base * Pow2(cycles.n - 1), _max_reconnect_delay)

\* C4: reconnection never gives up.  While the adapter has not been shut down,
\* whenever a connection attempt has ended (its session is being closed, or the
\* loop sleeps before the next one), whatever its outcome, the read loop
\* eventually starts a new attempt; and the loop task is finished only if a
\* shutdown was requested.
C4_ReconnectNeverGivesUp ==
    /\ [](pcSse = "done" => pcTerm # "idle")
    /\ (pcSse \in {"close", "sleep"} /\ pcTerm = "idle")
          ~> (pcSse = "get" \/ pcTerm # "idle")

\* a second cycle has ended with an exception raised while connected, and the
\* loop is in its third attempt, no shutdown requested
C4_Witness ==
    /\ pcSse = "get" /\ pcTerm = "idle"
    /\ cycles.ended = 2 /\ cycles.last = "raise"

TasksOver == pcSse \in {"none", "done"} /\ pcTimer \in {"none", "done"}

\* C5: once terminate() has returned, the read loop and the browse timer have
\* finished, no browse cycle started by the command is still to run, the stream
\* session is not open, _connected is false, and from then on no event is
\* committed to the queue and no connection attempt starts.
C5_QuietAfterTerminate ==
    /\ [](pcTerm = "done" =>
            /\ TasksOver
            /\ "browse" \notin Range(ready)
            /\ sse_session # "open"
            /\ ~connected
            /\ tasks = <<>>)
    /\ [][pcTerm = "done" =>
            /\ event_queue' = event_queue
            /\ pcSse' = pcSse /\ pcTimer' = pcTimer
            /\ sse_session' = sse_session]_vars

\* terminate() has returned after the command started a browse cycle while the
\* stream was connected, and a later command came after the shutdown
C5_Witness ==
    /\ pcTerm = "done" /\ pcSse = "done" /\ ready = <<>>
    /\ nCmds = 2
    /\ \E k \in 1..Len(event_queue) : event_queue[k].src = "browse"

\* C6: a shutdown requested at any point of the read loop or of the browse
\* timer eventually brings both tasks to completion and terminate() to return.
C6_ShutdownCompletes ==
    (pcTerm = "called") ~> (pcTerm = "done" /\ TasksOver)

\* terminate() has returned after it cancelled the read loop in the mark-read
\* call: the admitted notification's handling never completed
C6_Witness ==
    /\ pcTerm = "done" /\ TasksOver
    /\ \E i \in 1..Len(notifLog) : notifLog[i].marks = 1 /\ ~notifLog[i].done

\* C7: with reply_probability = 0 no notification, whatever the draw, commits
\* an event to the queue or triggers a mark-read call.
C7_ZeroProbabilityAdmitsNothing ==
    reply_probability = 0 =>
        \A i \in 1..Len(notifLog) : notifLog[i].marks = 0 /\ EventsOf(i) = {}

\* C8: with reply_probability = 1 every notification handled to completion has
\* committed exactly one event and triggered exactly one mark-read call,
\* whatever the draw.
C8_FullProbabilityAdmitsAll ==
    reply_probability = PScale =>
        \A i \in 1..Len(notifLog) :
            notifLog[i].done =>
                /\ notifLog[i].marks = 1
                /\ Cardinality(EventsOf(i)) = 1
                /\ \A k \in EventsOf(i) :
                      event_queue[k] = NotificationEvent(i, notifLog[i])

\* a notification with the largest draw was handled to completion at p = 1
C8_Witness ==
    /\ reply_probability = PScale
    /\ \E i \in 1..Len(notifLog) :
          /\ notifLog[i].done /\ notifLog[i].draw = PScale - 1
          /\ EventsOf(i) # {}

\* C9: a notification whose draw exceeds reply_probability commits no event and
\* triggers no mark-read call; a mark-read call is made only for an admitted
\* notification, and at most once for it.
C9_GateClosedAboveProbability ==
    \A i \in 1..Len(notifLog) :
        /\ notifLog[i].draw > reply_probability =>
              notifLog[i].marks = 0 /\ EventsOf(i) = {}
        /\ notifLog[i].marks > 0 => ~(notifLog[i].draw > reply_probability)
        /\ notifLog[i].marks <= 1
        /\ Cardinality(EventsOf(i)) <= notifLog[i].marks

\* a notification was dropped at the gate: its draw exceeded the probability
C9_Witness ==
    \E i \in 1..Len(notifLog) :
        /\ notifLog[i].draw > reply_probability
        /\ notifLog[i].done /\ notifLog[i].marks = 0

\* C10: the event of an admitted notification is committed no later than its
\* mark-read call is issued, so that the call can neither delay nor prevent it.
C10_CommitBeforeMarkRead ==
    \A i \in 1..Len(notifLog) : notifLog[i].marks > 0 => EventsOf(i) # {}

\* C11: a failure of the mark-read call (another status than 200, an exception
\* of the client, the timeout) is swallowed: the notification's event is
\* committed, exactly once, the call is made once, and the step that takes the
\* failure leaves the adapter connected and the read loop reading the stream
\* or handling the next notification.
C11_MarkReadFailureSwallowed ==
    /\ [](\A i \in 1..Len(notifLog) :
            notifLog[i].result \in MarkResults \ {"200"} =>
                /\ notifLog[i].done /\ notifLog[i].marks = 1
                /\ Cardinality(EventsOf(i)) = 1)
    /\ [][(pcSse = "mark" /\ notifLog' # notifLog) =>
            /\ connected' /\ pcSse' \in {"read", "mark"}
            /\ Len(event_queue') = Len(event_queue) + 1]_vars

\* the mark-read call timed out; the event is in the queue and the loop reads on
C11_Witness ==
    /\ connected /\ pcSse = "read"
    /\ \E i \in 1..Len(notifLog) :
          notifLog[i].result = "timeout" /\ EventsOf(i) # {}

\* the blocks of the current connection that were handed to the handlers
Handled == SubSeq(wire, 1, Len(wire) - Len(pending))
CountOf(seq, T) == Cardinality({k \in 1..Len(seq) : seq[k].type \in T})

\* C12: every notification, admitted or not, and every new_thread event
\* appends exactly one entry to the memory ring: on the first connection, when
\* the loop waits for the next chunk, the ring holds one entry for each such
\* block received.
C12_OneMemoryEntryPerEvent ==
    (pcSse = "read" /\ cycles.ended = 0) =>
        Len(memory) = CountOf(wire, NotifTypes \cup {"new_thread"})

\* C13: the memory ring never holds more than max_memory_items entries; once
\* more entries than that were inserted the oldest are absent, and the ring
\* always holds the most recent entries, as many as fit, in insertion order.
C13_RingBounded ==
    LET n == Inserted(memory)
        held == Min(n, max_memory_items)
    IN  /\ Len(memory) <= max_memory_items
        /\ Len(memory) = held
        /\ \A i \in 1..Len(memory) : memory[i].n = n - held + i

\* capacity + 1 entries were inserted: the first is gone, the rest are held
C13_Witness ==
    /\ Inserted(memory) = max_memory_items + 1
    /\ Len(memory) = max_memory_items
    /\ memory[1].n = 2

\* C14: a new_thread event never reaches the admission gate: no event of that
\* type is committed to the queue and no mark-read call is made for one,
\* whatever reply_probability and the draw.
C14_NewThreadNeverWakes ==
    /\ \A k \in 1..Len(event_queue) : event_queue[k].type # "new_thread"
    /\ \A i \in 1..Len(notifLog) : notifLog[i].type # "new_thread"
    /\ (/\ pcSse = "read" /\ cycles.ended = 0
        /\ \A k \in 1..Len(wire) : wire[k].type = "new_thread")
          => event_queue = <<>> /\ notifLog = <<>>

\* two new_thread events were handled at reply_probability 1
C14_Witness ==
    /\ reply_probability = PScale /\ connected /\ pcSse = "read"
    /\ Len(wire) = 2 /\ \A k \in 1..Len(wire) : wire[k].type = "new_thread"

ConnectedAt == {k \in 1..Len(Handled) : Handled[k].type = "connected"}

\* C15: a block of type connected sets the bot identity to its user_id (the
\* identity is that of the last such block handled) and does nothing else: it
\* is not passed to the notification handler, commits no event, triggers no
\* mark-read call and writes no memory entry.
C15_ConnectedSetsIdentityOnly ==
    /\ \A k \in 1..Len(event_queue) : event_queue[k].type # "connected"
    /\ \A i \in 1..Len(notifLog) : notifLog[i].type # "connected"
    /\ (pcSse \in {"read", "mark"} /\ ConnectedAt # {}) =>
          \E k \in ConnectedAt :
             /\ \A j \in ConnectedAt : j <= k
             /\ bot_user_id = Handled[k].user_id
    /\ (/\ pcSse = "read" /\ cycles.ended = 0
        /\ \A k \in 1..Len(wire) : wire[k].type = "connected")
          => event_queue = <<>> /\ notifLog = <<>> /\ memory = <<>>

\* two connected blocks were handled, the identity is the second one's
C15_Witness ==
    /\ pcSse = "read" /\ cycles.ended = 0
    /\ Len(wire) = 2 /\ \A k \in 1..Len(wire) : wire[k].type = "connected"
    /\ wire[1].user_id = "42" /\ wire[2].user_id = None
    /\ bot_user_id = None

IsNotification(f) == f.type \in NotifTypes

\* C16: on one connection the blocks are handled in the order received, one at
\* a time: the notifications handled are, in order, the notifications among
\* the blocks handed to the handlers; only the last one can be unfinished; and
\* the events in the queue are in the order of their notifications.
C16_WireOrder ==
    /\ (pcSse \in {"read", "mark"} /\ cycles.ended = 0) =>
          LET N == SelectSeq(Handled, IsNotification)
          IN  /\ Len(notifLog) = Len(N)
              /\ \A i \in 1..Len(N) :
                    notifLog[i].type = N[i].type /\ notifLog[i].draw = N[i].draw
    /\ \A i \in 1..Len(notifLog) : i < Len(notifLog) => notifLog[i].done
    /\ \A j, k \in 1..Len(event_queue) :
          j < k => event_queue[j].nid < event_queue[k].nid
    /\ pending # <<>> => pcSse = "mark"

\* two notifications with different draws came in one chunk; both were
\* admitted and their events are in the queue in that order
C16_Witness ==
    /\ pcSse = "read" /\ cycles.ended = 0
    /\ Len(wire) = 2 /\ Len(notifLog) = 2
    /\ wire[1].draw # wire[2].draw
    /\ Len(event_queue) = 2

\* C18: a malformed unit received while connected (data that is not JSON, or
\* JSON that is not an object) is dropped without effect: the step that
\* receives a chunk of such blocks changes nothing, and leaves the adapter
\* connected and reading the same stream.
C18_MalformedUnitDropped ==
    [][(/\ Len(wire') > Len(wire)
        /\ \A k \in (Len(wire) + 1)..Len(wire') :
              wire'[k].type \in {"bad_json", "non_object"})
          => /\ connected' /\ pcSse' = "read"
             /\ UNCHANGED <<event_queue, notifLog, bot_user_id, cycles>>]_vars

\* C17: chunk boundaries do not matter to the decoder: when a block has
\* arrived, cut into chunks at any places, the values handed to
\* _handle_message are those the block gives when it arrives as one chunk.
C17_ChunkBoundaryInsensitive ==
    stream = <<>> => delivered = Feed(<<>>, fed).events

BrowseCount(q) == Cardinality({k \in 1..Len(q) : q[k].src = "browse"})
TimerRuns == Runs("timer") /\ ~Runs("timer")'

\* C19: the browse timer commits no event before its initial delay is over;
\* every firing after it commits exactly one browse event, whatever the state
\* of the connection, and is followed by the interval sleep; the timer leaves
\* that loop only when it is cancelled.
C19_TimerFiresRegardless ==
    /\ [][(TimerRuns /\ pcTimer \in {"sleep60", "sleepInt"} /\ ~cancelReq["timer"])
            => /\ event_queue' = Append(event_queue, BrowseEvent)
               /\ pcTimer' = "sleepInt"]_vars
    /\ [][(pcTimer \in {"none", "new"} \/ (pcTimer = "sleep60" /\ ~TimerRuns))
            => (BrowseCount(event_queue') > BrowseCount(event_queue)
                   => Runs("browse"))]_vars
    /\ [][pcTimer = "sleepInt" => pcTimer' \in {"sleepInt", "done"}]_vars
    /\ [](pcTimer = "done" => pcTerm # "idle")

\* the timer fired and committed its event while the adapter had never been
\* connected and the read loop was in its backoff sleep
C19_Witness ==
    /\ pcSse = "sleep" /\ cycles.first /\ cycles.last = "error"
    /\ cycles.ended = cycles.n
    /\ pcTimer = "sleepInt" /\ nCmds = 0
    /\ BrowseCount(event_queue) = 1

CmdRuns == Runs("cmd") /\ Len(ready') <= Len(ready)
ManualRuns == Runs("browse") /\ Len(ready') < Len(ready)
TimerUntouched ==
    /\ UNCHANGED <<pcTimer, tasks, cancelReq, nBrowse>>
    /\ ("timer" \in Range(ready')) = ("timer" \in Range(ready))

\* C20: a browse command accepted while connected starts one browse cycle, in
\* a task of its own, which commits exactly one browse event; neither step
\* touches the timer: its task, its position in its sleep, whether it is due
\* and its pending cancellation stay as they were.
C20_ManualBrowseLeavesTimer ==
    /\ [][(CmdRuns /\ connected) =>
            /\ ready' = Append(Tail(ready), "browse")
            /\ event_queue' = event_queue
            /\ TimerUntouched]_vars
    /\ [][ManualRuns =>
            /\ event_queue' = Append(event_queue, BrowseEvent)
            /\ ready' = Tail(ready)
            /\ TimerUntouched]_vars

\* a browse cycle of the command and a firing of the timer have both committed
\* their event, the timer is in its interval sleep
C20_Witness ==
    /\ pcTimer = "sleepInt" /\ ready = <<>>
    /\ nCmds = 1 /\ nBrowse = 1
    /\ BrowseCount(event_queue) = 2

\* C21: every event in the queue, from a notification or from a browse cycle
\* of the timer or of the command, has the session key
\* "astrbook_browse_system" and its wake flag set.
C21_FixedSessionAndAwake ==
    \A k \in 1..Len(event_queue) :
        /\ event_queue[k].session_id = "astrbook_browse_system"
        /\ event_queue[k].is_wake = TRUE

\* the queue holds the event of a notification and the event of a browse cycle
C21_Witness ==
    /\ \E k \in 1..Len(event_queue) : event_queue[k].src = "notification"
    /\ \E k \in 1..Len(event_queue) : event_queue[k].src = "browse"

\* C22: every event of a browse cycle has the sender "system", no thread id,
\* no reply id and the flag is_browse_event set; no event of a notification
\* has that flag set.
C22_BrowseEventIsSynthetic ==
    \A k \in 1..Len(event_queue) :
        /\ event_queue[k].src = "browse" =>
              /\ event_queue[k].sender.user_id = "system"
              /\ event_queue[k].thread_id = JNull
              /\ event_queue[k].reply_id = JNull
              /\ event_queue[k].is_browse_event = TRUE
        /\ event_queue[k].src = "notification" =>
              event_queue[k].is_browse_event = FALSE

\* the event of a notification is followed in the queue by the event of a
\* browse cycle the command started
C22_Witness ==
    /\ Len(event_queue) = 2 /\ nCmds = 1 /\ nBrowse = 0
    /\ event_queue[1].src = "notification"
    /\ event_queue[2].src = "browse"

\* the value the event holds for a field of the body: the field's value, None
\* when the body has no such key
Carried(v, field) == IF field = JAbsent THEN v = JNull ELSE v = field

\* C23: the event committed for an admitted notification has the body's
\* thread_id and reply_id (None for a key the body lacks), the body's type as
\* its notification kind, and as sender the body's from_user_id, as a string,
\* and from_username ("unknown" when the body has no such key); the mention
\* with thread_id 7, reply_id 99 from user 3, alice, gives thread_id 7,
\* reply_id 99, kind "mention", sender "3", alice.
C23_EventCarriesFrameFields ==
    \A i \in 1..Len(notifLog) : \A k \in EventsOf(i) :
        LET ev == event_queue[k]
            body == notifLog[i].payload
        IN  /\ Carried(ev.thread_id, body.thread_id)
            /\ Carried(ev.reply_id, body.reply_id)
            /\ ev.notification_type = notifLog[i].type
            /\ body.from_user_id.tag = "int" =>
                  ev.sender.user_id = ToString(body.from_user_id.int)
            /\ body.from_user_id.tag = "str" =>
                  ev.sender.user_id = body.from_user_id.str
            /\ body.from_user_id.tag \in {"null", "absent"} =>
                  ev.sender.user_id = "None"
            /\ IF body.from_username = JAbsent
               THEN ev.sender.nickname = JStr("unknown")
               ELSE ev.sender.nickname = body.from_username
            /\ (/\ notifLog[i].type = "mention"
                /\ body = Payload(JInt(7), JInt(99), JInt(3), JStr("alice")))
                  => /\ ev.thread_id = JInt(7) /\ ev.reply_id = JInt(99)
                     /\ ev.notification_type = "mention"
                     /\ ev.sender = [user_id |-> "3", nickname |-> JStr("alice")]

\* the mention of thread 7, reply 99 from alice was admitted and committed
C23_Witness ==
    \E k \in 1..Len(event_queue) :
        /\ event_queue[k].type = "mention"
        /\ event_queue[k].thread_id = JInt(7)
        /\ event_queue[k].reply_id = JInt(99)
        /\ event_queue[k].sender.nickname = JStr("alice")

\* C24: when no token is configured, running the adapter creates no task: the
\* read loop and the browse timer never exist, no session is opened, the
\* adapter is never connected, no browse cycle is started by the command, and
\* no event is ever committed.
C24_NoTokenNoLoops ==
    ~token =>
        /\ tasks = <<>>
        /\ pcSse = "none" /\ pcTimer = "none"
        /\ \A t \in {"sse", "timer", "browse"} : t \notin Range(ready)
        /\ sse_session = None /\ ~connected
        /\ event_queue = <<>>

\* without a token the adapter was run and shut down, auto_browse configured,
\* and two browse commands were dispatched and handled
C24_Witness ==
    /\ ~token /\ auto_browse
    /\ pcRun = "done" /\ pcTerm = "done"
    /\ nCmds = 2 /\ ready = <<>>

\* C25: the bot identity is None until a block of type connected is handled;
\* only the read loop, handling the blocks of a chunk, changes it; and once it
\* is not None no step makes it None again.
C25_IdentityNeverNullAgain ==
    /\ [][bot_user_id' # bot_user_id =>
            Runs("sse") /\ pcSse \in {"read", "mark"}]_vars
    /\ [][bot_user_id # None => bot_user_id' # None]_vars

\* the task or command handler t takes a step
StepOf(t) == Runs(t) /\ Len(ready') <= Len(ready)
ConnectionState == <<connected, reconnect_delay, bot_user_id>>

\* C26: the connected flag, the backoff delay and the bot identity are left
\* unchanged by every step of the browse timer, of the browse command, of the
\* browse cycle the command starts and of the status command, and by the
\* steps of the read loop in which the notification handler takes a
\* notification to the gate or commits its event.
C26_OnlyConnectionManagerWrites ==
    /\ [][(\E t \in {"timer", "cmd", "browse", "status"} : StepOf(t))
            => UNCHANGED ConnectionState]_vars
    /\ [][(StepOf("sse") /\ notifLog' # notifLog)
            => UNCHANGED ConnectionState]_vars

\* while connected with the identity assigned, the timer fired, a status
\* command and a browse command were handled, and the adapter is still
\* connected with that identity
C26_Witness ==
    /\ connected /\ bot_user_id = "42" /\ pcSse = "read"
    /\ nBrowse = 1 /\ nCmds = 1 /\ ready = <<>>
    /\ BrowseCount(event_queue) = 1

\* C27: while the adapter is connected a heartbeat task is among its tasks,
\* next to the read loop and the browse timer, to probe the connection.
C27_HeartbeatWhileConnected ==
    connected => "heartbeat" \in Range(tasks)

\* C28: with auto_reply_mentions configured false no notification commits an
\* event, whatever reply_probability and the draw.
C28_AutoReplyOffAdmitsNothing ==
    ~auto_reply_mentions =>
        \A k \in 1..Len(event_queue) : event_queue[k].src # "notification"

\* C29: toggle_follow sends no duplicate request: when a follow request is
\* sent the server does not have the bot following the user, and when an
\* unfollow request is sent it has, however the calls of the tool interleave.
C29_NoDuplicateFollowRequest ==
    \A i \in 1..Len(requests) :
        /\ requests[i].kind = "follow" => ~requests[i].following
        /\ requests[i].kind = "unfollow" => requests[i].following

\* C30: a block whose type is the heartbeat acknowledgment or any type that
\* has no branch, or that has no data line, is consumed silently: the step
\* that receives a chunk of such blocks commits no event, makes no mark-read
\* call, changes neither the connection state nor the bot identity, and
\* leaves the adapter connected and reading the stream.
C30_SilentBlocksConsumed ==
    [][(/\ Len(wire') > Len(wire)
        /\ \A k \in (Len(wire) + 1)..Len(wire') : wire'[k].type \in SilentTypes)
          => /\ connected /\ connected' /\ pcSse' = "read"
             /\ UNCHANGED <<event_queue, notifLog, bot_user_id, reconnect_delay,
                            cycles, sse_session, pending>>]_vars

\* a heartbeat acknowledgment and a block without data were consumed on a
\* connection that had delivered nothing else
C30_Witness ==
    /\ connected /\ pcSse = "read" /\ cycles.ended = 0
    /\ Len(wire) = 2 /\ wire[1].type = "pong" /\ wire[2].type = "no_data"
    /\ event_queue = <<>> /\ notifLog = <<>>

\* C31: an error raised in a browse cycle of the timer does not end the timer
\* task: every firing that is not cancelled, failed or not, is followed by the
\* interval sleep, from which the next cycle runs; the timer task, the read
\* loop task and _run finish only when a shutdown has been requested, so no
\* error leaves a task or reaches the gather.
C31_ErrorsContained ==
    /\ [][(TimerRuns /\ pcTimer \in {"sleep60", "sleepInt"} /\ ~cancelReq["timer"])
            => /\ pcTimer' = "sleepInt"
               /\ \/ event_queue' = event_queue
                  \/ event_queue' = Append(event_queue, BrowseEvent)]_vars
    /\ [](pcTimer = "done" => pcTerm # "idle")
    /\ [](pcSse = "done" => pcTerm # "idle")
    /\ [](pcRun = "done" => pcTerm # "idle")

\* the timer fired twice, one of the cycles raised and the other committed
\* its event; the timer sleeps its interval and no shutdown was requested
C31_Witness ==
    /\ pcTimer = "sleepInt" /\ pcTerm = "idle" /\ pcRun = "gather"
    /\ nBrowse = 2 /\ nCmds = 0 /\ ready = <<>>
    /\ BrowseCount(event_queue) = 1

\* C32: _connected is true only while the read loop reads the stream of a
\* connection attempt that was answered with status 200 (or handles a block
\* of it), its session open: it is false before the first answer, after a 401
\* or another status, while the session is being closed, during every backoff
\* sleep, once the read loop task has finished, and after terminate().
C32_ConnectedOnlyWhileReading ==
    /\ connected => /\ pcSse \in {"read", "mark"}
                    /\ sse_session = "open"
                    /\ pcTerm # "done"
    /\ pcSse \in {"none", "new", "get", "close", "sleep", "done"} => ~connected
    /\ pcTerm = "done" => ~connected

\* connected again, reading the stream, after an attempt that was answered
\* with 401 and the backoff sleep that followed it
C32_Witness ==
    /\ connected /\ pcSse = "read"
    /\ cycles.ended = 1 /\ cycles.last = "401"

\* C33 as stated: a session is open only during its connection attempt: none
\* is open before the first attempt, during a backoff sleep, once the read
\* loop task has finished (its attempt returned, raised or was cancelled), or
\* after terminate().
C33_SessionClosedWithAttempt ==
    (pcSse \in {"none", "new", "sleep", "done"} \/ pcTerm = "done")
        => sse_session # "open"

\* C33 amended: an attempt opens its session only when no session is open, so
\* at most one is open at any time; none is open before the first attempt or
\* during a backoff sleep; a session is still open once the read loop task
\* has finished only if terminate() cancelled the attempt while it was
\* closing that session, terminate() not yet returned; and none is open after
\* terminate().
C33_SessionClosedOrTerminating ==
    /\ [][(pcSse \in {"new", "sleep"} /\ pcSse' = "get")
            => sse_session # "open" /\ sse_session' = "open"]_vars
    /\ [](pcSse \in {"none", "new", "sleep"} => sse_session # "open")
    /\ []((pcSse = "done" /\ sse_session = "open")
            => pcTerm \in {"await", "closing"})
    /\ [][(pcSse = "close" /\ pcSse' = "done" /\ sse_session' = "open")
            => cancelReq["sse"]]_vars
    /\ [](pcTerm = "done" => sse_session # "open")

\* terminate() cancelled the read loop while it was closing its session; the
\* task has finished, the session is open and terminate() is closing it
C33_Witness ==
    /\ pcSse = "done" /\ sse_session = "open" /\ pcTerm = "closing"

\* the browse cycles of the command that are still to run
PendingManual(q) == Cardinality({k \in 1..Len(q) : q[k] = "browse"})

\* C34: a browse command handled while _connected is false starts no browse
\* task and commits nothing; a browse cycle of the command comes to be pending
\* only by a command handled while _connected was true, and only such a cycle
\* commits the command's event; the timer firing while _connected is false
\* does commit its browse event.
C34_ManualBrowseNeedsConnection ==
    /\ [][(CmdRuns /\ ~connected) =>
            /\ ready' = Tail(ready)
            /\ event_queue' = event_queue]_vars
    /\ [][PendingManual(ready') > PendingManual(ready) =>
            /\ CmdRuns /\ connected
            /\ PendingManual(ready') = PendingManual(ready) + 1]_vars
    /\ [][(Len(event_queue') > Len(event_queue) /\ ~TimerRuns
            /\ event_queue'[Len(event_queue')].src = "browse") =>
            /\ ManualRuns
            /\ PendingManual(ready') = PendingManual(ready) - 1]_vars
    /\ [][(TimerRuns /\ pcTimer \in {"sleep60", "sleepInt"}
            /\ ~cancelReq["timer"] /\ ~connected) =>
            event_queue' = Append(event_queue, BrowseEvent)]_vars

\* the adapter is waiting for the answer to its first connection request and
\* has never been connected: a browse command was refused and the timer fired
\* and committed its event
C34_Witness ==
    /\ pcSse = "get" /\ cycles.first /\ cycles.ended = 0 /\ ~connected
    /\ pcTimer = "sleepInt" /\ pcTerm = "idle" /\ ready = <<>>
    /\ nCmds = 1 /\ nBrowse = 1
    /\ BrowseCount(event_queue) = 1

\* the bytes received on each connection: bytes cut at the places in ends
RECURSIVE Connections(_, _, _)
Connections(bytes, ends, from) ==
    IF ends = <<>> THEN <<SubSeq(bytes, from + 1, Len(bytes))>>
    ELSE <<SubSeq(bytes, from + 1, Head(ends))>>
            \o Connections(bytes, Tail(ends), Head(ends))

\* the values the blocks completed within one connection give, connection by
\* connection, each decoded as one chunk from an empty buffer
RECURSIVE EventsOfEach(_)
EventsOfEach(cs) ==
    IF cs = <<>> THEN <<>> ELSE Feed(<<>>, Head(cs)).events \o EventsOfEach(Tail(cs))

IsAscii(bytes) == \A i \in 1..Len(bytes) : bytes[i] < 128

\* C35: the buffer does not survive a connection: there are as many values
\* delivered as blocks completed within one connection, over bytes below 128
\* they are the values of these blocks, and the buffer holds only what the
\* current connection has left unterminated; a partial block left when a
\* connection ended gives no event, alone or joined to later data.
C35_BufferPerConnection ==
    LET cs == Connections(fed, cuts, 0)
    IN  /\ Len(delivered) = Len(EventsOfEach(cs))
        /\ IsAscii(fed) =>
              /\ delivered = EventsOfEach(cs)
              /\ buffer = Feed(<<>>, cs[Len(cs)]).buffer

\* a connection ended in the middle of a block, the next one carried the rest
\* of that block to its end, and nothing was delivered
C35_Witness ==
    /\ Len(cuts) = 1 /\ stream = <<>> /\ delivered = <<>>
    /\ fed \in DataBlocks
    /\ cuts[1] > 0 /\ cuts[1] < Len(fed) - 2

\* the items after the k-th call of initialize() or terminate()
ItemsAfter(k) ==
    IF k = Len(configLog) THEN metadata.items ELSE configLog[k + 1].before

\* C36: registering and then unregistering is a round trip: after an
\* initialize() that registers followed by terminate(), the items are those
\* that were there before the initialize(), keys already present under the
\* plugin's names included; a second initialize() or terminate() in a row
\* changes nothing.
C36_RegisterRoundTrip ==
    /\ \A k \in 1..(Len(configLog) - 1) :
          (/\ configLog[k].op = "initialize" /\ ~configLog[k].registered
           /\ configLog[k + 1].op = "terminate")
             => ItemsAfter(k + 1) = configLog[k].before
    /\ \A k \in 1..(Len(configLog) - 1) :
          configLog[k].op = configLog[k + 1].op
             => ItemsAfter(k + 1) = configLog[k + 1].before

\* C37: after accepted calls of save_forum_diary the file holds diaries only,
\* at most 50 of them: the most recently saved ones in the order they were
\* saved, none missing between the oldest kept and the last saved; each
\* accepted call appends its entry and drops the oldest beyond 50; a refused
\* call (fewer than 10 characters once stripped) leaves the file as it was.
C37_DiaryKeepsLastFifty ==
    /\ []((nSaved > 0 /\ storage.valid) =>
            LET data == storage.data
            IN  /\ storage.exists
                /\ OnlyDiaries(data) = data
                /\ Len(data) <= KeptDiaries
                /\ Len(data) >= Min(KeptDiaries, nSaved)
                /\ data[Len(data)].content = nSaved
                /\ \A i \in 1..(Len(data) - 1) :
                      data[i + 1].content = data[i].content + 1)
    /\ [][nSaved' = nSaved + 1 =>
            storage'.data =
                LastOf(Append(OnlyDiaries(storage.data),
                              storage'.data[Len(storage'.data)]), KeptDiaries)]_vars
    /\ [][nRejected' = nRejected + 1 => storage' = storage]_vars

\* fifty-two diaries were saved into a file that held two and entries of
\* other types: the file holds the last fifty, the newest of them were
\* recalled; shorter texts were refused
C37_Witness ==
    /\ nSaved = KeptDiaries + 2 /\ nRejected = 2
    /\ storage.valid /\ Len(storage.data) = KeptDiaries
    /\ storage.data[1].content = 3
    /\ recalled.kind = "diaries" /\ Len(recalled.items) = 5
    /\ recalled.items[1].content = nSaved

====
